---- MODULE Spec2Model ----
(***************************************************************************)
(* Model of the AI-provider layer of Sofware-AI: the provider factory      *)
(* (agent/ai/factory.py), the three provider clients (gemini_client.py,    *)
(* openai_client.py, mock_client.py) and their process_request.            *)
(*                                                                         *)
(* Python strings that the code inspects (prompts, provider names, texts,  *)
(* exception messages) are sequences of one-character tokens, so lower(),  *)
(* strip(), split() and the substring test are computed, not assumed.      *)
(* Values the code only passes along or tests for truth (credentials,      *)
(* model names) are opaque tokens; "None" is Python's None and "" the      *)
(* empty string.                                                           *)
(***************************************************************************)
EXTENDS Integers, Sequences, FiniteSets, TLC

VARIABLES
    env,        \* os.environ: the variables the code reads
    dotenv,     \* what the .env file defines (read by load_dotenv)
    sdk,        \* the installed vendor packages: [gemini, openai]
    agent,      \* the client the application holds (None before creation)
    lastCreate, \* the last create_client call: arguments, attempts, outcome
    lastReq,    \* the last process_request call: client, prompt, outcome
    ui,         \* the main window: widgets, message history, UI-thread stack
    workers,    \* the WorkerThread objects the window has started, in order
    queue,      \* signals queued for delivery on the UI thread
    cli,        \* the command-line loop: position, client, last output
    web         \* the WebAutomation object and the site search it is running

\* The front ends (ui/main_window.py, agent/cli.py)
frontVars == <<ui, workers, queue, cli>>

vars == <<env, dotenv, sdk, agent, lastCreate, lastReq, ui, workers, queue, cli, web>>

----------------------------------------------------------------------------
(* Bounds *)

\* Prompts are concatenations of at most MaxFrags fragments of PromptFrags.
MaxFrags == 2

----------------------------------------------------------------------------
(* Python str helpers on sequences of characters *)

UpperChars == <<"A","B","C","D","E","F","G","H","I","J","K","L","M",
                "N","O","P","Q","R","S","T","U","V","W","X","Y","Z">>

LowerChars == <<"a","b","c","d","e","f","g","h","i","j","k","l","m",
                "n","o","p","q","r","s","t","u","v","w","x","y","z">>

\* str.lower() of one character
LowerChar(c) ==
    IF \E i \in DOMAIN UpperChars : UpperChars[i] = c
    THEN LowerChars[CHOOSE i \in DOMAIN UpperChars : UpperChars[i] = c]
    ELSE c

\* str.lower()
Lower(s) == [i \in 1..Len(s) |-> LowerChar(s[i])]

\* `needle in hay` for str
Contains(hay, needle) ==
    \E i \in 0..(Len(hay) - Len(needle)) :
        \A j \in 1..Len(needle) : hay[i + j] = needle[j]

\* Characters str.strip() removes
IsSpace(c) == c \in {" ", "\n", "\t"}

\* str.lstrip()
RECURSIVE LStrip(_)
LStrip(s) ==
    IF s # <<>> /\ IsSpace(Head(s)) THEN LStrip(Tail(s)) ELSE s

\* str.rstrip()
RECURSIVE RStrip(_)
RStrip(s) ==
    IF s # <<>> /\ IsSpace(s[Len(s)])
    THEN RStrip(SubSeq(s, 1, Len(s) - 1))
    ELSE s

\* str.strip()
Strip(s) == RStrip(LStrip(s))

\* Python truthiness of an opaque value (None and "" are falsy)
Truthy(v) == v \notin {"None", ""}

\* Python's `a or b` on opaque values
Or(a, b) == IF Truthy(a) THEN a ELSE b

----------------------------------------------------------------------------
(* Optional[str] arguments: None, or a string *)

NoneArg == [some |-> FALSE, s |-> <<>>]

Some(s) == [some |-> TRUE, s |-> s]

----------------------------------------------------------------------------
(* The environment *)

\* load_dotenv(): a variable of the .env file is set unless os.environ has it
LoadDotenv(e, f) ==
    [k \in DOMAIN e |-> IF e[k] = "None" /\ k \in DOMAIN f THEN f[k] ELSE e[k]]

----------------------------------------------------------------------------
(* The clients' constructors.  Each returns
     [exc   |-> "" on success, else the exception type,
      env   |-> os.environ afterwards,
      client|-> the client built (NoClient on failure)]                    *)

NoClient == [name |-> "None"]

\* MockClient.__init__
MockClientInit == [name |-> "mock"]

\* `from .gemini_client import GeminiClient; GeminiClient(model)`
GeminiClientInit(e, f, s, model) ==
    IF s.gemini = "missing"
    THEN [exc |-> "ImportError", env |-> e, client |-> NoClient]
    ELSE LET e1 == LoadDotenv(e, f)
             api_key == e1["GOOGLE_API_KEY"]
         IN  IF ~Truthy(api_key)
             THEN [exc |-> "ValueError", env |-> e1, client |-> NoClient]
             ELSE [exc |-> "",
                   env |-> [e1 EXCEPT !["GOOGLE_API_KEY"] = api_key],
                   client |-> [name |-> "gemini",
                               model_name |->
                                   Or(model, Or(e1["GEMINI_MODEL"], "gemini-pro"))]]

\* client_kwargs["max_retries"]: the retries the new SDK's client is built with
MaxRetries == 3

\* os.getenv("OPENAI_MODEL", "gpt-3.5-turbo")
OpenAIDefaultModel(e) ==
    IF e["OPENAI_MODEL"] = "None" THEN "gpt-3.5-turbo" ELSE e["OPENAI_MODEL"]

\* `from .openai_client import OpenAIClient; OpenAIClient()`
\* s.openai is the installed openai package:
\*   "missing"  no openai package: the module's last `import openai` raises
\*   "async"    new SDK, AsyncOpenAI exported
\*   "sync"     new SDK, only OpenAI exported
\*   "nochat"   new SDK, only OpenAI exported, client has no `chat`
\*   "broken"   new SDK whose client constructor raises
\*   "old_chat" / "old_completion" / "old_none": old package exposing
\*              ChatCompletion.create / only Completion.create / neither
OpenAIClientInit(e, f, s) ==
    IF s.openai = "missing"
    THEN [exc |-> "ImportError", env |-> e, client |-> NoClient]
    ELSE LET e1 == LoadDotenv(e, f)
             api_key == e1["OPENAI_API_KEY"]
         IN  IF ~Truthy(api_key)
             THEN [exc |-> "ValueError", env |-> e1, client |-> NoClient]
             ELSE IF s.openai = "broken"
             THEN [exc |-> "RuntimeError", env |-> e1, client |-> NoClient]
             ELSE [exc |-> "", env |-> e1,
                   client |->
                     [name |-> "openai",
                      client |-> IF s.openai \in {"async", "sync", "nochat"}
                                 THEN s.openai ELSE "None",
                      max_retries |-> IF s.openai \in {"async", "sync", "nochat"}
                                      THEN MaxRetries ELSE 0,
                      is_async |-> (s.openai = "async"),
                      has_chat |-> (s.openai \in {"async", "sync"}),
                      openai_module |-> IF s.openai \in {"old_chat", "old_completion", "old_none"}
                                        THEN s.openai ELSE "unset",
                      model |-> OpenAIDefaultModel(e1)]]

----------------------------------------------------------------------------
(* AIFactory.create_client *)

FactoryNoCatch(r) == r

\* The `try: ... except Exception: pass` around a construction attempt: the
\* attempt's exception is swallowed and the factory goes on.
FactoryTry(r) == [r EXCEPT !.exc = ""]

\* str of the provider names the factory compares with
GeminiName == <<"g","e","m","i","n","i">>

OpenAIName == <<"o","p","e","n","a","i">>

\* `provider.lower()` when a provider is given
NormalizeProvider(provider) ==
    IF provider.some THEN Some(Lower(provider.s)) ELSE provider

\* A factory that attempts Gemini whenever its credential is set
WantsGeminiWithCredential(p, e) ==
    (p.some /\ p.s = GeminiName) \/ Truthy(e["GOOGLE_API_KEY"])

WantsGeminiExplicitOnly(p, e) == p.some /\ p.s = GeminiName

\* The factory's condition to attempt Gemini
WantsGemini(p, e) ==
    (p.some /\ p.s = GeminiName) \/ (~p.some /\ Truthy(e["GOOGLE_API_KEY"]))

WantsOpenAIAnyProvider(p, e) ==
    (p.some /\ p.s = OpenAIName) \/ Truthy(e["OPENAI_API_KEY"])

\* The factory's condition to attempt OpenAI
WantsOpenAI(p, e) ==
    (p.some /\ p.s = OpenAIName) \/ (~p.some /\ Truthy(e["OPENAI_API_KEY"]))

\* A factory that leaves the built client as it is
SetModelNever(client, model) == client

\* The factory configures a freshly built OpenAI client with the model:
\* there is no set_model, so the attribute is set
SetModel(client, model) ==
    IF model # "None" THEN [client EXCEPT !.model = model] ELSE client

\* create_client(provider, model) in environment e, .env file f, packages s.
\* Returns [raised, client, built, env, attempts]: attempts lists the clients
\* whose construction was attempted, in order; built is the returned client
\* as its constructor left it.
CreateClientResult(provider, model, e, f, s) ==
    LET p == NormalizeProvider(provider)
        g == IF WantsGemini(p, e)
             THEN FactoryTry(GeminiClientInit(e, f, s, model))
             ELSE [exc |-> "skip", env |-> e, client |-> NoClient]
        gTried == IF g.exc = "skip" THEN <<>> ELSE <<"gemini">>
    IN  IF g.exc \notin {"", "skip"}
        THEN [raised |-> TRUE, client |-> NoClient, built |-> NoClient,
              env |-> g.env, attempts |-> gTried]
        ELSE IF g.client.name # "None"
        THEN [raised |-> FALSE, client |-> g.client, built |-> g.client,
              env |-> g.env, attempts |-> gTried]
        ELSE
        LET o == IF WantsOpenAI(p, g.env)
                 THEN FactoryTry(OpenAIClientInit(g.env, f, s))
                 ELSE [exc |-> "skip", env |-> g.env, client |-> NoClient]
            oTried == IF o.exc = "skip" THEN gTried ELSE Append(gTried, "openai")
        IN  IF o.exc \notin {"", "skip"}
            THEN [raised |-> TRUE, client |-> NoClient, built |-> NoClient,
                  env |-> o.env, attempts |-> oTried]
            ELSE IF o.client.name # "None"
            THEN [raised |-> FALSE, client |-> SetModel(o.client, model),
                  built |-> o.client, env |-> o.env, attempts |-> oTried]
            ELSE [raised |-> FALSE, client |-> MockClientInit,
                  built |-> MockClientInit, env |-> o.env,
                  attempts |-> Append(oTried, "mock")]

----------------------------------------------------------------------------
(* Results of process_request.  A returned dict is a record with the dict's
   keys; a returned str is a sequence of characters.
     [raised |-> an exception left process_request,
      py     |-> "dict" or "str" (the Python type of the returned value),
      value  |-> the returned value,
      text   |-> the text extracted from the vendor response,
      calls  |-> the number of vendor calls made]                          *)

Returned(py, value, text, calls) ==
    [raised |-> FALSE, py |-> py, value |-> value, text |-> text, calls |-> calls]

Propagated(msg, calls) ==
    [raised |-> TRUE, py |-> "exception", value |-> msg, text |-> <<>>,
     calls |-> calls]

----------------------------------------------------------------------------
(* OpenAIClient.process_request *)

\* The message of the RuntimeError raised when no old-style package is held
\* (one token per word)
NoApiFoundMsg == <<"No", " ", "ChatCompletion", " ", "or", " ", "Completion",
                   " ", "API", " ", "found">>

\* The vendor response objects.  A response is
\*   [t |-> "none"]                      None
\*   [t |-> "empty", repr]               an empty mapping {} (falsy)
\*   [t |-> "dict", choices, repr]       a mapping
\*   [t |-> "obj",  choices, repr]       an object with a choices attribute
\*   [t |-> "bad",  repr]                an object whose attributes raise
\* and a choice is [t |-> "dict" | "obj", has_message, message_t, content,
\* has_text, text, repr]; content and text are [str |-> BOOLEAN, s |-> chars]
\* (a value that is not a str has str FALSE); repr is str() of the object.

\* `choices[0] if choices else None`, then the text of the choice
\* (openai_client.py 196-224): the value assigned to `text`
\* A reading that looks at the text field first
ChoiceTextPrefersText(choice) ==
    IF choice.has_text THEN choice.text
    ELSE IF choice.has_message THEN choice.content
    ELSE [str |-> TRUE, s |-> <<>>]

ChoiceText(choice) ==
    IF choice.t = "dict"
    THEN IF choice.has_message /\ choice.message_t = "dict"
         THEN choice.content
         ELSE IF choice.has_text THEN choice.text
         ELSE [str |-> TRUE, s |-> <<>>]
    ELSE IF choice.has_message
         THEN IF choice.message_t \in {"obj", "dict"} THEN choice.content
              ELSE [str |-> TRUE, s |-> <<>>]
         ELSE IF choice.has_text THEN choice.text
         ELSE [str |-> TRUE, s |-> <<>>]

OpenAIExtractNoFallback(response) ==
    IF response.t \in {"none", "empty", "bad"} THEN <<>>
    ELSE IF response.choices = <<>> THEN <<>>
    ELSE LET choice == response.choices[1]
             raw == ChoiceText(choice)
             t1 == IF raw.str THEN Strip(raw.s) ELSE <<>>
             t2 == IF t1 = <<>> THEN Strip(choice.repr) ELSE t1
         IN  IF t2 = <<>> THEN Strip(response.repr) ELSE t2

\* The inner try of process_request (openai_client.py 185-239): the text
\* extracted from the response; its except clause falls back to str(response)
OpenAIExtract(response) ==
    IF response.t \in {"none", "empty"} THEN <<>>
    ELSE IF response.t = "bad" THEN Strip(response.repr)
    ELSE IF response.choices = <<>> THEN Strip(response.repr)
    ELSE LET choice == response.choices[1]
             raw == ChoiceText(choice)
             t1 == IF raw.str THEN Strip(raw.s) ELSE <<>>
             t2 == IF t1 = <<>> THEN Strip(choice.repr) ELSE t1
         IN  IF t2 = <<>> THEN Strip(response.repr) ELSE t2

\* text.split('\n')
RECURSIVE SplitLines(_)
SplitLines(s) ==
    IF \E i \in 1..Len(s) : s[i] = "\n"
    THEN LET i == CHOOSE k \in 1..Len(s) :
                      s[k] = "\n" /\ \A j \in 1..(k - 1) : s[j] # "\n"
         IN  <<SubSeq(s, 1, i - 1)>> \o SplitLines(SubSeq(s, i + 1, Len(s)))
    ELSE <<s>>

RECURSIVE NonEmptyUnstripped(_)
NonEmptyUnstripped(lines) ==
    IF lines = <<>> THEN <<>>
    ELSE IF Strip(Head(lines)) = <<>> THEN NonEmptyUnstripped(Tail(lines))
    ELSE <<Head(lines)>> \o NonEmptyUnstripped(Tail(lines))

\* [r.strip() for r in lines if r.strip()]
RECURSIVE NonEmptyStripped(_)
NonEmptyStripped(lines) ==
    IF lines = <<>> THEN <<>>
    ELSE IF Strip(Head(lines)) = <<>> THEN NonEmptyStripped(Tail(lines))
    ELSE <<Strip(Head(lines))>> \o NonEmptyStripped(Tail(lines))

PurchaseKeywords == { <<"p","r","i","c","e">>, <<"c","o","s","t">>,
                      <<"b","u","y">>, <<"p","u","r","c","h","a","s","e">> }

AnalysisKeywords == { <<"a","n","a","l","y","z","e">>, <<"r","e","v","i","e","w">>,
                      <<"c","o","m","p","a","r","e">> }

RecommendKeywords == { <<"r","e","c","o","m","m","e","n","d">>,
                       <<"s","u","g","g","e","s","t">>,
                       <<"a","l","t","e","r","n","a","t","i","v","e">> }

\* any(keyword in lower_prompt for keyword in keywords)
AnyKeyword(lower_prompt, keywords) ==
    \E k \in keywords : Contains(lower_prompt, k)

ClassifyNoLower(prompt, text) ==
    IF AnyKeyword(prompt, PurchaseKeywords)
    THEN [type |-> "product_search",
          search_params |-> [query |-> prompt, response |-> text]]
    ELSE IF AnyKeyword(prompt, AnalysisKeywords)
    THEN [type |-> "product_analysis", analysis |-> text]
    ELSE IF AnyKeyword(prompt, RecommendKeywords)
    THEN [type |-> "recommendation",
          recommendations |-> NonEmptyStripped(SplitLines(text))]
    ELSE [type |-> "general_response", response |-> text]

ClassifyLoweredQuery(prompt, text) ==
    LET lower_prompt == Lower(prompt)
    IN  IF AnyKeyword(lower_prompt, PurchaseKeywords)
        THEN [type |-> "product_search",
              search_params |-> [query |-> lower_prompt, response |-> text]]
        ELSE IF AnyKeyword(lower_prompt, AnalysisKeywords)
        THEN [type |-> "product_analysis", analysis |-> text]
        ELSE IF AnyKeyword(lower_prompt, RecommendKeywords)
        THEN [type |-> "recommendation",
              recommendations |-> NonEmptyStripped(SplitLines(text))]
        ELSE [type |-> "general_response", response |-> text]

ClassifyGeneralLosesText(prompt, text) ==
    LET lower_prompt == Lower(prompt)
    IN  IF AnyKeyword(lower_prompt, PurchaseKeywords)
        THEN [type |-> "product_search",
              search_params |-> [query |-> prompt, response |-> text]]
        ELSE IF AnyKeyword(lower_prompt, AnalysisKeywords)
        THEN [type |-> "product_analysis", analysis |-> text]
        ELSE IF AnyKeyword(lower_prompt, RecommendKeywords)
        THEN [type |-> "recommendation",
              recommendations |-> NonEmptyStripped(SplitLines(text))]
        ELSE [type |-> "general_response", response |-> prompt]

ClassifyAnalysisFirst(prompt, text) ==
    LET lower_prompt == Lower(prompt)
    IN  IF AnyKeyword(lower_prompt, AnalysisKeywords)
        THEN [type |-> "product_analysis", analysis |-> text]
        ELSE IF AnyKeyword(lower_prompt, PurchaseKeywords)
        THEN [type |-> "product_search",
              search_params |-> [query |-> prompt, response |-> text]]
        ELSE IF AnyKeyword(lower_prompt, RecommendKeywords)
        THEN [type |-> "recommendation",
              recommendations |-> NonEmptyStripped(SplitLines(text))]
        ELSE [type |-> "general_response", response |-> text]

\* A classification that remembers: once a request of the window is over,
\* every later prompt is classified as general
ClassifyRemembers(prompt, text) ==
    IF \E w \in DOMAIN workers : workers[w].pc # "started"
    THEN [type |-> "general_response", response |-> text]
    ELSE ClassifyAnalysisFirst(prompt, text)

\* The action type detection (openai_client.py 241-270): the response dict
Classify(prompt, text) ==
    LET lower_prompt == Lower(prompt)
    IN  IF AnyKeyword(lower_prompt, PurchaseKeywords)
        THEN [type |-> "product_search",
              search_params |-> [query |-> prompt, response |-> text]]
        ELSE IF AnyKeyword(lower_prompt, AnalysisKeywords)
        THEN [type |-> "product_analysis", analysis |-> text]
        ELSE IF AnyKeyword(lower_prompt, RecommendKeywords)
        THEN [type |-> "recommendation",
              recommendations |-> NonEmptyStripped(SplitLines(text))]
        ELSE [type |-> "general_response", response |-> text]

OpenAICallRetriesOnce(c, v) ==
    IF c.client # "None" /\ c.has_chat
    THEN IF v.raises THEN [exc |-> TRUE, msg |-> v.msg, response |-> [t |-> "none"], calls |-> 2]
         ELSE [exc |-> FALSE, msg |-> <<>>, response |-> v.response, calls |-> 1]
    ELSE IF c.openai_module # "unset"
    THEN IF c.openai_module \in {"old_chat", "old_completion"}
         THEN IF v.raises THEN [exc |-> TRUE, msg |-> v.msg, response |-> [t |-> "none"], calls |-> 2]
              ELSE [exc |-> FALSE, msg |-> <<>>, response |-> v.response, calls |-> 1]
         ELSE [exc |-> FALSE, msg |-> <<>>, response |-> [t |-> "none"], calls |-> 0]
    ELSE [exc |-> TRUE, msg |-> NoApiFoundMsg, response |-> [t |-> "none"], calls |-> 0]

\* The vendor call of process_request (openai_client.py 146-182) on client c
\* when the vendor answers v = [raises, msg, response, tries]:
\*   [exc, msg, response, calls]
\* calls counts the calls of a create method that process_request makes;
\* v.tries is the number of HTTP attempts the SDK makes inside that call.
OpenAICall(c, v) ==
    IF c.client # "None" /\ c.has_chat
    THEN \* chat.completions.create, awaited or not
         IF v.raises THEN [exc |-> TRUE, msg |-> v.msg, response |-> [t |-> "none"], calls |-> 1]
         ELSE [exc |-> FALSE, msg |-> <<>>, response |-> v.response, calls |-> 1]
    ELSE IF c.openai_module # "unset"
    THEN IF c.openai_module \in {"old_chat", "old_completion"}
         THEN \* ChatCompletion.create, else Completion.create
              IF v.raises THEN [exc |-> TRUE, msg |-> v.msg, response |-> [t |-> "none"], calls |-> 1]
              ELSE [exc |-> FALSE, msg |-> <<>>, response |-> v.response, calls |-> 1]
         ELSE \* neither API: response stays None
              [exc |-> FALSE, msg |-> <<>>, response |-> [t |-> "none"], calls |-> 0]
    ELSE [exc |-> TRUE, msg |-> NoApiFoundMsg, response |-> [t |-> "none"], calls |-> 0]

OpenAIExceptPropagates(call, value, text) ==
    IF call.exc
    THEN Propagated(call.msg, call.calls)
    ELSE Returned("dict", value, text, call.calls)

\* The outer try/except of process_request (openai_client.py 145, 272-273):
\* an exception of the body becomes {'type': 'error', 'error': str(e)}
OpenAIExcept(call, value, text) ==
    IF call.exc
    THEN Returned("dict", [type |-> "error", error |-> call.msg], <<>>, call.calls)
    ELSE Returned("dict", value, text, call.calls)

\* OpenAIClient.process_request(prompt) when the vendor answers v
OpenAIProcessRequest(c, prompt, v) ==
    LET call == OpenAICall(c, v)
        text == IF call.exc THEN <<>> ELSE OpenAIExtract(call.response)
    IN  OpenAIExcept(call, Classify(prompt, text), text)

----------------------------------------------------------------------------
(* MockClient.process_request *)

MockProcessRequestClassifies(prompt) ==
    Returned("dict", Classify(prompt, prompt), prompt, 0)

MockProcessRequestStripped(prompt) ==
    Returned("dict", [type |-> "general_response", response |-> Strip(prompt)],
             prompt, 0)

\* MockClient.process_request: text = f"{prompt}" is echoed
MockProcessRequest(prompt) ==
    Returned("dict", [type |-> "general_response", response |-> prompt],
             prompt, 0)

----------------------------------------------------------------------------
(* GeminiClient.process_request *)

\* "\n".join(parts)
RECURSIVE Join(_)
Join(parts) ==
    IF parts = <<>> THEN <<>>
    ELSE IF Len(parts) = 1 THEN parts[1]
    ELSE parts[1] \o <<"\n">> \o Join(Tail(parts))

\* The raw vendor values.  A raw response is
\*   [t |-> "none"] | [t |-> "str", s] |
\*   [t |-> "dict", d, repr]   d: the mapping, key -> value
\*   [t |-> "obj",  d, repr]   d: the attributes, name -> value
\*   [t |-> "bad",  repr]      an object whose attributes raise when read
\* a value is [t |-> "str", s] or [t |-> "list", items], an item being
\* [t |-> "str", s] or [t |-> "dict", content, text]; repr is str(raw).

\* Python truthiness of a value of a raw response
ValTruthy(v) == IF v.t = "list" THEN v.items # <<>> ELSE v.s # <<>>

\* str(item.get("content") or item.get("text") or "") / str(item)
ItemText(item) ==
    IF item.t = "dict"
    THEN IF item.content # <<>> THEN item.content ELSE item.text
    ELSE item.s

\* (p for p in parts if p)
RECURSIVE NonEmpty(_)
NonEmpty(parts) ==
    IF parts = <<>> THEN <<>>
    ELSE IF Head(parts) = <<>> THEN NonEmpty(Tail(parts))
    ELSE <<Head(parts)>> \o NonEmpty(Tail(parts))

\* The text of one value: a list is joined, anything else is str(val)
ValText(v) ==
    IF v.t = "list"
    THEN Join(NonEmpty([i \in 1..Len(v.items) |-> ItemText(v.items[i])]))
    ELSE v.s

\* str(item) of an item that is a mapping (one token)
ItemRepr == <<"{i}">>

\* Python truthiness of an item of a list
ItemTruthy(item) ==
    IF item.t = "dict" THEN item.content # <<>> \/ item.text # <<>>
    ELSE item.s # <<>>

\* (str(v) for v in val if v)
RECURSIVE TruthyItemStrs(_)
TruthyItemStrs(items) ==
    IF items = <<>> THEN <<>>
    ELSE IF ~ItemTruthy(Head(items)) THEN TruthyItemStrs(Tail(items))
    ELSE <<IF Head(items).t = "dict" THEN ItemRepr ELSE Head(items).s>>
         \o TruthyItemStrs(Tail(items))

\* The text of the value of an attribute: a list is joined, anything else
\* is str(val)
AttrValText(v) ==
    IF v.t = "list" THEN Join(TruthyItemStrs(v.items)) ELSE v.s

DictKeysTextFirst == <<"text", "output", "content", "candidates">>

DictKeys == <<"output", "text", "content", "candidates">>

ObjAttrs == <<"text", "output", "content">>

\* The first name of `names` (from index i) that d holds with a truthy value;
\* 0 when there is none
RECURSIVE FirstTruthy(_, _, _)
FirstTruthy(d, names, i) ==
    IF i > Len(names) THEN 0
    ELSE IF names[i] \in DOMAIN d /\ ValTruthy(d[names[i]]) THEN i
    ELSE FirstTruthy(d, names, i + 1)

\* GeminiClient._extract_text
ExtractText(raw) ==
    IF raw.t = "none" THEN <<>>
    ELSE IF raw.t = "str" THEN raw.s
    ELSE IF raw.t = "dict"
    THEN LET i == FirstTruthy(raw.d, DictKeys, 1)
         IN  IF i # 0 THEN ValText(raw.d[DictKeys[i]]) ELSE raw.repr
    ELSE IF raw.t = "bad" THEN raw.repr
    ELSE LET i == FirstTruthy(raw.d, ObjAttrs, 1)
         IN  IF i # 0 THEN AttrValText(raw.d[ObjAttrs[i]]) ELSE raw.repr

\* s[n+1:]
Drop(s, n) == SubSeq(s, n + 1, Len(s))

\* Case-insensitive match of the literal lit at the start of s
StartsWithCI(s, lit) ==
    Len(s) >= Len(lit) /\ Lower(SubSeq(s, 1, Len(lit))) = Lower(lit)

\* Case-insensitive match of the literal lit at the end of s
EndsWithCI(s, lit) ==
    Len(s) >= Len(lit)
    /\ Lower(SubSeq(s, Len(s) - Len(lit) + 1, Len(s))) = Lower(lit)

SystemLabels == { <<"S","y","s","t","e","m",":">>,
                  <<"A","s","s","i","s","t","a","n","t",":">>,
                  <<"[","s","y","s","t","e","m","]">>,
                  <<"(","s","y","s","t","e","m",")">> }

\* re.sub(r"^\s*(System:|Assistant:|\[system\]|\(system\))\s*", "", text, I)
StripSystemLabel(text) ==
    LET t0 == LStrip(text)
    IN  IF \E l \in SystemLabels : StartsWithCI(t0, l)
        THEN LET l == CHOOSE x \in SystemLabels : StartsWithCI(t0, x)
             IN  LStrip(Drop(t0, Len(l)))
        ELSE text

\* re.sub(r"^\s*\[[^\]]+\]\s*", "", text)
StripBracketed(text) ==
    LET t0 == LStrip(text)
    IN  IF t0 # <<>> /\ t0[1] = "[" /\ \E k \in 3..Len(t0) : t0[k] = "]"
           /\ t0[2] # "]"
        THEN LET k == CHOOSE j \in 3..Len(t0) :
                          t0[j] = "]" /\ \A m \in 2..(j - 1) : t0[m] # "]"
             IN  LStrip(Drop(t0, k))
        ELSE text

\* The replacement greeting and the replacement closing phrase (one token
\* per Persian word)
Salam == <<"salam", "!", " ">>

Komak == <<"chetor", " ", "mitunam", " ", "komaketun", " ", "konam", "?">>

Greetings == << <<"H","e","l","l","o">>, <<"H","i">>, <<"H","e","y">>,
                <<"G","r","e","e","t","i","n","g","s">> >>

\* \w of a regular expression, over the characters of the model
IsWordChar(c) ==
    \/ \E i \in DOMAIN LowerChars : LowerChars[i] = c \/ UpperChars[i] = c
    \/ c = "_"

\* [:,.!?]* at the start of s, removed
RECURSIVE DropPunct(_)
DropPunct(s) ==
    IF s # <<>> /\ Head(s) \in {":", ",", ".", "!", "?"}
    THEN DropPunct(Tail(s)) ELSE s

\* ^Word\b matches text (case-insensitively)
GreetingMatches(text, word) ==
    /\ StartsWithCI(text, word)
    /\ (Len(text) = Len(word) \/ ~IsWordChar(text[Len(word) + 1]))

\* \?*$ : s without its trailing question marks
RECURSIVE DropTrailingQ(_)
DropTrailingQ(s) ==
    IF s # <<>> /\ s[Len(s)] = "?"
    THEN DropTrailingQ(SubSeq(s, 1, Len(s) - 1)) ELSE s

HelpPhrase == <<"H","o","w"," ","c","a","n"," ","I"," ","h","e","l","p"," ","y","o","u">>

AssistPhrase == <<"H","o","w"," ","c","a","n"," ","I"," ","a","s","s","i","s","t"," ","y","o","u">>

Today == <<" ","t","o","d","a","y">>

\* re.sub(phrase + r"( today)?\?*$", Komak, text, I): the text with the
\* closing phrase replaced, or text itself when the pattern does not match
ReplaceClosing(text, phrase) ==
    LET nl == text # <<>> /\ text[Len(text)] = "\n"
        body == IF nl THEN SubSeq(text, 1, Len(text) - 1) ELSE text
        b1 == DropTrailingQ(body)
        b2 == IF EndsWithCI(b1, Today) /\ EndsWithCI(SubSeq(b1, 1, Len(b1) - Len(Today)), phrase)
              THEN SubSeq(b1, 1, Len(b1) - Len(Today)) ELSE b1
    IN  IF EndsWithCI(b2, phrase)
        THEN SubSeq(b2, 1, Len(b2) - Len(phrase)) \o Komak
             \o (IF nl THEN <<"\n">> ELSE <<>>)
        ELSE text

\* The loop over greetings_map (gemini_client.py 174-182): the first
\* pattern that changes the text is applied, and only that one
ReplaceGreeting(text) ==
    IF \E i \in DOMAIN Greetings : GreetingMatches(text, Greetings[i])
    THEN LET i == CHOOSE k \in DOMAIN Greetings :
                      /\ GreetingMatches(text, Greetings[k])
                      /\ \A j \in 1..(k - 1) : ~GreetingMatches(text, Greetings[j])
         IN  Salam \o LStrip(DropPunct(Drop(text, Len(Greetings[i]))))
    ELSE IF ReplaceClosing(text, HelpPhrase) # text
    THEN ReplaceClosing(text, HelpPhrase)
    ELSE ReplaceClosing(text, AssistPhrase)

\* GeminiClient._clean_and_localize (the prompt only sets an unused flag)
CleanAndLocalize(text, prompt) ==
    IF text = <<>> THEN <<>>
    ELSE Strip(ReplaceGreeting(StripBracketed(StripSystemLabel(text))))

\* str of the RuntimeError raised when _sync_generate returns None
\* (one token per word)
FailedToCallMsg == <<"Failed", " ", "to", " ", "call", " ", "generation", " ", "API">>

\* The prefix of the error string the Gemini client returns (one token for
\* the Persian word)
KhataPrefix == <<"khata", ":", " ">>

\* _sync_generate(p) (gemini_client.py 103-125) with the installed package
\* shape s and the vendor answering v = [raises, msg, raw]:
\* [raw, calls]; any exception of the call gives None
SyncGenerate(s, v) ==
    IF s \in {"GenerativeModel", "Client.generate", "Client.text_generation",
              "responses"}
    THEN IF v.raises THEN [raw |-> [t |-> "none"], calls |-> 1]
         ELSE [raw |-> v.raw, calls |-> 1]
    ELSE [raw |-> [t |-> "none"], calls |-> 0]

GeminiExceptPropagates(gen, cleaned, text) ==
    IF gen.raw.t = "none"
    THEN Propagated(FailedToCallMsg, gen.calls)
    ELSE Returned("str", cleaned, text, gen.calls)

\* The try/except of process_request (gemini_client.py 100, 129-140): a
\* missing raw response raises, and the exception becomes an error string
GeminiExcept(gen, cleaned, text) ==
    IF gen.raw.t = "none"
    THEN Returned("str", KhataPrefix \o FailedToCallMsg, <<>>, gen.calls)
    ELSE Returned("str", cleaned, text, gen.calls)

\* GeminiClient.process_request(prompt) when the vendor answers v
GeminiProcessRequest(s, prompt, v) ==
    LET gen == SyncGenerate(s, v)
        text == ExtractText(gen.raw)
    IN  GeminiExcept(gen, CleanAndLocalize(text, prompt), text)

----------------------------------------------------------------------------
(* Inputs *)

CredValues == {"None", "", "k"}

ModelEnvValues == {"None", "env-model"}

GeminiSdks == {"missing", "GenerativeModel", "Client.generate",
               "Client.text_generation", "responses", "noshape"}

\* For the factory only the presence of the Gemini package matters
FactoryGeminiSdks == {"missing", "GenerativeModel"}

OpenAISdks == {"missing", "async", "sync", "nochat", "broken",
               "old_chat", "old_completion", "old_none"}

\* The .env files: each defines a subset of the two credentials
DotenvFiles ==
    { [k \in ks |-> "k"] : ks \in SUBSET {"GOOGLE_API_KEY", "OPENAI_API_KEY"} }

Environments ==
    { [GOOGLE_API_KEY |-> g, OPENAI_API_KEY |-> o, GEMINI_MODEL |-> m,
       OPENAI_MODEL |-> m] :
        g \in CredValues, o \in CredValues, m \in ModelEnvValues }

ProviderArgs ==
    { NoneArg,
      Some(<<"g","e","m","i","n","i">>), Some(<<"G","e","m","i","n","i">>),
      Some(<<"o","p","e","n","a","i">>), Some(<<"O","P","E","N","A","I">>),
      Some(<<"m","o","c","k">>),
      Some(<<>>), Some(<<"g","e","m","i","n","i"," ">>) }

ModelArgs == {"None", "m"}

NoCreate == [called |-> FALSE, provider |-> NoneArg, model |-> "None",
             raised |-> FALSE, attempts |-> <<>>, envBefore |-> <<>>,
             built |-> NoClient]

NoRequest == [phase |-> "idle"]

\* No window has been built and the command-line loop has not been entered
NoWindow == [open |-> FALSE]

NoCli == [pc |-> "off"]

\* No WebAutomation object has been built
NoWeb == [pc |-> "off"]

NoFrontEnd ==
    /\ ui = NoWindow
    /\ workers = <<>>
    /\ queue = <<>>
    /\ cli = NoCli
    /\ web = NoWeb

----------------------------------------------------------------------------
(* The factory on its own: any environment, any arguments *)

InitFactory ==
    /\ env \in Environments
    /\ dotenv \in DotenvFiles
    /\ sdk \in [gemini : FactoryGeminiSdks, openai : OpenAISdks]
    /\ agent = NoClient
    /\ lastCreate = NoCreate
    /\ lastReq = NoRequest
    /\ NoFrontEnd

\* agent = AIFactory.create_client(provider, model)
CreateClient(provider, model) ==
    LET r == CreateClientResult(provider, model, env, dotenv, sdk)
    IN  /\ lastReq.phase = "idle"
        /\ env' = r.env
        /\ agent' = IF r.raised THEN agent ELSE r.client
        /\ lastCreate' = [called |-> TRUE, provider |-> provider,
                          model |-> model, raised |-> r.raised,
                          attempts |-> r.attempts, envBefore |-> env,
                          built |-> r.built]
        /\ UNCHANGED <<dotenv, sdk, lastReq>>
        /\ UNCHANGED <<frontVars, web>>

NextFactory ==
    \E provider \in ProviderArgs, model \in ModelArgs :
        CreateClient(provider, model)

SpecFactory == InitFactory /\ [][NextFactory]_vars

----------------------------------------------------------------------------
(* The application: a client is created, requests are processed *)

PromptFrags == { <<"B","u","y">>, <<"p","r","i">>, <<"c","e"," ">>,
                 <<"R","e","v","i","e","w">>, <<"s","u","g","g","e","s","t">>,
                 <<"h","i">> }

\* The concatenations of at most n fragments
RECURSIVE PromptsUpTo(_)
PromptsUpTo(n) ==
    IF n = 0 THEN { <<>> }
    ELSE PromptsUpTo(n - 1)
         \cup { p \o f : p \in PromptsUpTo(n - 1), f \in PromptFrags }

Prompts == PromptsUpTo(MaxFrags)

\* str(e) of the exceptions a vendor call raises
VendorMsgs == { <<>>, <<"t","i","m","e","o","u","t">> }

Texts == { <<>>, <<"o","k">>, <<" ","a","\n","\n"," ","b"," ">> }

Str(s) == [str |-> TRUE, s |-> s]

NotStr == [str |-> FALSE, s |-> <<>>]

ChoiceRepr == <<"<","c",">">>

ResponseRepr == <<"<","r",">"," ">>

Choice(t, has_message, message_t, content, has_text, text) ==
    [t |-> t, has_message |-> has_message, message_t |-> message_t,
     content |-> content, has_text |-> has_text, text |-> text,
     repr |-> ChoiceRepr]

Choices ==
    { Choice(t, TRUE, mt, Str(x), FALSE, NotStr) :
        t \in {"dict", "obj"}, mt \in {"dict", "obj"}, x \in Texts }
    \cup { Choice(t, FALSE, "none", NotStr, TRUE, Str(x)) :
            t \in {"dict", "obj"}, x \in Texts }
    \cup { Choice("obj", TRUE, "obj", NotStr, FALSE, NotStr),
           Choice("obj", TRUE, "other", NotStr, TRUE, Str(<<"o","k">>)),
           Choice("dict", FALSE, "none", NotStr, FALSE, NotStr) }

OpenAIResponses ==
    { [t |-> "none", choices |-> <<>>, repr |-> <<>>],
      [t |-> "empty", choices |-> <<>>, repr |-> <<"{", "}">>],
      [t |-> "bad", choices |-> <<>>, repr |-> ResponseRepr],
      [t |-> "dict", choices |-> <<>>, repr |-> ResponseRepr],
      [t |-> "obj", choices |-> <<>>, repr |-> ResponseRepr] }
    \cup { [t |-> c.t, choices |-> <<c>>, repr |-> ResponseRepr] : c \in Choices }
    \cup { [t |-> "dict", repr |-> ResponseRepr,
            choices |-> << Choice("dict", TRUE, "dict", Str(<<>>), FALSE, NotStr),
                           Choice("dict", TRUE, "dict", Str(<<"o","k">>), FALSE, NotStr) >>] }

\* What the vendor answers to one create call, after `tries` HTTP attempts
\* of the SDK: a client built with max_retries repeats a failed attempt up
\* to max_retries times before it raises or returns
OpenAIOutcomes ==
    { [raises |-> TRUE, msg |-> m, tries |-> n,
       response |-> [t |-> "none", choices |-> <<>>, repr |-> <<>>]] :
        m \in VendorMsgs, n \in 1..(MaxRetries + 1) }
    \cup { [raises |-> FALSE, msg |-> <<>>, tries |-> 1, response |-> r] :
            r \in OpenAIResponses }
    \cup { [raises |-> FALSE, msg |-> <<>>, tries |-> n,
            response |-> [t |-> "empty", choices |-> <<>>, repr |-> <<"{", "}">>]] :
            n \in 2..(MaxRetries + 1) }

SVal(s) == [t |-> "str", s |-> s, items |-> <<>>]

LVal(items) == [t |-> "list", s |-> <<>>, items |-> items]

SItem(s) == [t |-> "str", s |-> s, content |-> <<>>, text |-> <<>>]

DItem(content, text) == [t |-> "dict", s |-> <<>>, content |-> content, text |-> text]

RawRepr == <<"<","g",">">>

GeminiRaws ==
    { [t |-> "none", s |-> <<>>, d |-> <<>>, repr |-> <<>>],
      [t |-> "str", s |-> <<"H","i","!"," ","o","k">>, d |-> <<>>, repr |-> <<>>],
      [t |-> "obj", s |-> <<>>, repr |-> RawRepr,
       d |-> [text |-> SVal(<<"S","y","s","t","e","m",":"," ","o","k"," ">>)]],
      [t |-> "obj", s |-> <<>>, repr |-> RawRepr,
       d |-> [text |-> SVal(<<>>),
              content |-> LVal(<<SItem(<<"a">>), SItem(<<>>), SItem(<<"b">>)>>)]],
      [t |-> "obj", s |-> <<>>, repr |-> RawRepr, d |-> <<>>],
      [t |-> "dict", s |-> <<>>, repr |-> RawRepr,
       d |-> [text |-> SVal(<<"[","m","]"," ","o","k">>),
              output |-> SVal(<<>>)]],
      [t |-> "dict", s |-> <<>>, repr |-> RawRepr,
       d |-> [candidates |-> LVal(<<DItem(<<>>, <<"x">>), DItem(<<"y">>, <<"z">>),
                                    DItem(<<>>, <<>>)>>)]],
      [t |-> "dict", s |-> <<>>, repr |-> RawRepr, d |-> <<>>],
      [t |-> "dict", s |-> <<>>, repr |-> RawRepr,
       d |-> [output |-> LVal(<<SItem(<<>>), DItem(<<>>, <<>>)>>),
              text |-> SVal(<<"t">>)]],
      [t |-> "dict", s |-> <<>>, repr |-> RawRepr,
       d |-> [content |-> SVal(<<"c">>), output |-> SVal(<<"o">>),
              text |-> SVal(<<"t">>)]],
      [t |-> "obj", s |-> <<>>, repr |-> RawRepr,
       d |-> [content |-> LVal(<<DItem(<<"y">>, <<>>), SItem(<<"c">>)>>),
              output |-> SVal(<<"o">>), text |-> LVal(<<>>)]],
      [t |-> "bad", s |-> <<>>, repr |-> RawRepr, d |-> <<>>] }

GeminiOutcomes ==
    { [raises |-> TRUE, msg |-> m, tries |-> 1,
       raw |-> [t |-> "none", s |-> <<>>, d |-> <<>>, repr |-> <<>>]] :
        m \in VendorMsgs }
    \cup { [raises |-> FALSE, msg |-> <<>>, tries |-> 1, raw |-> r] :
            r \in GeminiRaws }

\* The vendor is not asked
NoVendor == [raises |-> FALSE, msg |-> <<>>, tries |-> 0]

\* The environments of the application runs: no credential, or both
AppEnvironments ==
    { [GOOGLE_API_KEY |-> k, OPENAI_API_KEY |-> k, GEMINI_MODEL |-> "None",
       OPENAI_MODEL |-> "None"] : k \in {"None", "k"} }

\* The installed packages of the application runs: every shape of one
\* package beside a working other package
AppSdks ==
    { [gemini |-> g, openai |-> "async"] : g \in GeminiSdks }
    \cup { [gemini |-> "GenerativeModel", openai |-> o] : o \in OpenAISdks }

Init ==
    /\ env \in AppEnvironments
    /\ dotenv = <<>>
    /\ sdk \in AppSdks
    /\ agent = NoClient
    /\ lastCreate = NoCreate
    /\ lastReq = NoRequest
    /\ NoFrontEnd

\* result = await agent.process_request(prompt): the call is entered with
\* the client the application holds
StartRequest(prompt) ==
    /\ lastReq.phase = "idle"
    /\ agent.name # "None"
    /\ lastReq' = [phase |-> "calling", client |-> agent, prompt |-> prompt]
    /\ UNCHANGED <<env, dotenv, sdk, agent, lastCreate>>
    /\ UNCHANGED <<frontVars, web>>

Finish(vendor, result) ==
    /\ lastReq' = [phase |-> "done", client |-> lastReq.client,
                   prompt |-> lastReq.prompt,
                   vendor |-> IF result.calls = 0 THEN NoVendor ELSE vendor,
                   result |-> result]
    /\ UNCHANGED <<env, dotenv, sdk, agent, lastCreate>>
    /\ UNCHANGED <<frontVars, web>>

\* process_request runs to its end, the vendor (when asked) answering v
FinishRequest ==
    /\ lastReq.phase = "calling"
    /\ \/ /\ lastReq.client.name = "mock"
          /\ Finish(NoVendor, MockProcessRequest(lastReq.prompt))
       \/ /\ lastReq.client.name = "openai"
          /\ \E v \in OpenAIOutcomes :
                 /\ v.tries <= 1 + lastReq.client.max_retries
                 /\ Finish(v, OpenAIProcessRequest(lastReq.client, lastReq.prompt, v))
       \/ /\ lastReq.client.name = "gemini"
          /\ \E v \in GeminiOutcomes :
                 Finish(v, GeminiProcessRequest(sdk.gemini, lastReq.prompt, v))

\* The caller has presented the result and drops it
DiscardResult ==
    /\ lastReq.phase = "done"
    /\ lastReq' = NoRequest
    /\ UNCHANGED <<env, dotenv, sdk, agent, lastCreate>>
    /\ UNCHANGED <<frontVars, web>>

Next ==
    \/ \E provider \in ProviderArgs : CreateClient(provider, "None")
    \/ \E prompt \in Prompts : StartRequest(prompt)
    \/ FinishRequest
    \/ DiscardResult

Spec == Init /\ [][Next]_vars

----------------------------------------------------------------------------
(* The front ends: what they share *)

\* At most MaxSends requests are sent from the window in one run
MaxSends == 2

\* A listing that always ends with the mock provider
GetAvailableProvidersWithMock(e) ==
    (IF Truthy(e["GOOGLE_API_KEY"]) THEN <<"gemini">> ELSE <<>>)
    \o (IF Truthy(e["OPENAI_API_KEY"]) THEN <<"openai">> ELSE <<>>)
    \o <<"mock">>

\* AIFactory.get_available_providers(): the provider ids, in order
GetAvailableProviders(e) ==
    LET g == IF Truthy(e["GOOGLE_API_KEY"]) THEN <<"gemini">> ELSE <<>>
        o == IF Truthy(e["OPENAI_API_KEY"]) THEN <<"openai">> ELSE <<>>
    IN  IF g \o o = <<>> THEN <<"mock">> ELSE g \o o

\* AIFactory.get_models(provider)
GetModels(provider) ==
    CASE provider = "gemini" -> <<"gemini-2.5-flash">>
      [] provider = "openai" -> <<"gpt-oss-120b">>
      [] OTHER -> <<"mock-model">>

\* The provider id as the str handed to create_client
ProviderStr(provider) ==
    CASE provider = "gemini" -> GeminiName
      [] provider = "openai" -> OpenAIName
      [] OTHER -> <<"m","o","c","k">>

\* create_client(provider=provider, model=<first model of the provider>)
CreateSelected(provider, e, f, s) ==
    CreateClientResult(Some(ProviderStr(provider)), GetModels(provider)[1], e, f, s)

\* The record of a create_client call
Created(provider, model, r, e) ==
    [called |-> TRUE, provider |-> provider, model |-> model,
     raised |-> r.raised, attempts |-> r.attempts, envBefore |-> e,
     built |-> r.built]

\* The vendor answers of the front-end runs
FrontResponses ==
    { [t |-> "none", choices |-> <<>>, repr |-> <<>>],
      [t |-> "dict", repr |-> ResponseRepr,
       choices |-> <<Choice("dict", TRUE, "dict", Str(<<"o","k">>), FALSE, NotStr)>>] }

FrontOutcomes(c) ==
    CASE c.name = "openai" ->
            { v \in OpenAIOutcomes :
                v.tries = 1 /\ (v.raises \/ v.response \in FrontResponses) }
      [] c.name = "gemini" ->
            { v \in GeminiOutcomes :
                \/ v.raises /\ v.msg = <<>>
                \/ ~v.raises /\ v.raw.t = "str" }
      [] c.name = "raising" ->
            { [raises |-> TRUE, msg |-> m, tries |-> 0] : m \in VendorMsgs }
      [] OTHER -> { NoVendor }

\* An agent that is no client of the factory: its process_request raises
RaisingAgent == [name |-> "raising"]

\* agent.process_request(prompt): the method of the agent's class
ProcessRequest(c, s, prompt, v) ==
    CASE c.name = "openai" -> OpenAIProcessRequest(c, prompt, v)
      [] c.name = "gemini" -> GeminiProcessRequest(s.gemini, prompt, v)
      [] c.name = "raising" -> Propagated(v.msg, 0)
      [] OTHER -> MockProcessRequest(prompt)

\* How process_request makes its vendor call when its coroutine is driven by
\* the event loop of thread `loop`:
\*   mode    "awaited" (a coroutine of the vendor's async client is awaited),
\*           "inline" (a blocking call is made in the coroutine itself),
\*           "to_thread" (the blocking call runs in asyncio's thread pool and
\*           is awaited), "none" (no vendor call)
\*   thread  the thread that executes the call
\*   blocks  the thread whose event loop cannot run during the call
OpenAIDispatchAllAwaited(c, loop) ==
    [mode |-> "awaited", thread |-> loop, blocks |-> "none"]

OpenAIDispatch(c, loop) ==
    IF c.client # "None" /\ c.has_chat
    THEN IF c.is_async
         THEN [mode |-> "awaited", thread |-> loop, blocks |-> "none"]
         ELSE [mode |-> "inline", thread |-> loop, blocks |-> loop]
    ELSE IF c.openai_module \in {"old_chat", "old_completion"}
    THEN [mode |-> "inline", thread |-> loop, blocks |-> loop]
    ELSE [mode |-> "none", thread |-> "none", blocks |-> "none"]

\* `raw = await asyncio.to_thread(_sync_generate, prompt)`
GeminiDispatch(s, loop) ==
    IF SyncGenerate(s, [raises |-> TRUE]).calls = 1
    THEN [mode |-> "to_thread", thread |-> "pool", blocks |-> "none"]
    ELSE [mode |-> "none", thread |-> "none", blocks |-> "none"]

Dispatch(c, s, loop) ==
    CASE c.name = "openai" -> OpenAIDispatch(c, loop)
      [] c.name = "gemini" -> GeminiDispatch(s.gemini, loop)
      [] OTHER -> [mode |-> "none", thread |-> "none", blocks |-> "none"]

\* A value handed to a front end: a dict (empty: `{}`), or a str
Value(py, value) == [py |-> py, empty |-> FALSE, value |-> value]

EmptyDict == [py |-> "dict", empty |-> TRUE, value |-> <<>>]

\* d.get(key): the value, or None (here the empty sequence, equally falsy)
Get(d, key) ==
    IF d.py = "dict" /\ ~d.empty /\ key \in DOMAIN d.value
    THEN d.value[key] ELSE <<>>

\* key in d
HasKey(d, key) == d.py = "dict" /\ ~d.empty /\ key \in DOMAIN d.value

\* str(d) of a dict, as tokens: the braces around the type; the other
\* values are left out
StrOfDict(d) ==
    <<"{">> \o (IF HasKey(d, "type") THEN <<d.value.type>> ELSE <<>>) \o <<"}">>

----------------------------------------------------------------------------
(* The window: ui/main_window.py.  The UI thread runs one handler at a time;
   a handler that calls QApplication.processEvents() stays on the stack
   while the handlers of the events pending at that point run above it.
     ui      [open, enabled, providers, provider, messages, stack, worker]
     stack   frames [handler, command, worker, asked] suspended in
             processEvents()
     worker  self.worker, the index of a WorkerThread in `workers` (0: None)
     workers [agent, command, pc, vendor, result, call, shown]
        pc   "started" -> "resolved" (process_request is over) -> "emitted"
             (finished is emitted, run returns) -> "showing" (the slot has
             shown the reply) -> "handled" (the slot has returned)
        asked the index in ui.messages of the user's message of this worker
        shown the index in ui.messages of the reply to this worker         *)

\* The texts a user types before pressing send
GuiInputs == { <<" ">>, <<"h","i">>, <<"B","u","y"," ">> }

\* The welcome text, one token
Welcome == <<"salam">>

\* MainWindow.__init__ with r the result of create_client(): no message is
\* typed and no event is handled before the constructor returns
MainWindowInit(r) ==
    [open |-> TRUE, enabled |-> TRUE,
     providers |-> GetAvailableProviders(r.env),
     provider |-> GetAvailableProviders(r.env)[1],
     messages |-> << [sender |-> "sistem", message |-> Welcome] >>,
     stack |-> <<>>, worker |-> 0]

NoResult == [raised |-> FALSE, py |-> "none", value |-> <<>>, text |-> <<>>,
             calls |-> 0]

NoCall == [mode |-> "none", thread |-> "none", blocks |-> "none"]

\* The signals a worker has emitted so far
NoSignals == [finished |-> 0, progress |-> 0]

\* WorkerThread(agent): the command is None
WorkerThreadInit(a) ==
    [agent |-> a, has_command |-> FALSE, command |-> <<>>, pc |-> "built",
     vendor |-> NoVendor, result |-> NoResult, call |-> NoCall,
     arg |-> EmptyDict, asked |-> 0, shown |-> 0, emitted |-> NoSignals]

\* worker.command = command
SetCommand(worker, command) ==
    [worker EXCEPT !.has_command = TRUE, !.command = command]

\* worker.start(): run begins in the worker's own thread
Start(worker) == [worker EXCEPT !.pc = "started"]

\* The number of sends begun so far
Sends ==
    Len(workers)
    + Cardinality({ i \in DOMAIN ui.stack : ui.stack[i].handler = "on_send" })

\* A show_message that stores nothing in the history
ShowMessageNoHistory(sender, message, frame) ==
    [ui EXCEPT !.stack = Append(@, frame)]

\* show_message(sender, message) up to its processEvents() call: the message
\* is stored and the calling handler is suspended
ShowMessage(sender, message, frame) ==
    [ui EXCEPT !.messages = Append(@, [sender |-> sender, message |-> message]),
               !.stack = Append(@, frame)]

\* The frame on top of the stack
Top == ui.stack[Len(ui.stack)]

Pop(stack) == SubSeq(stack, 1, Len(stack) - 1)

\* on_send, from the click to the processEvents() of show_message: the
\* input is read and stripped; when it is empty nothing happens
OnSend(typed) ==
    /\ ui.open
    /\ ui.enabled
    /\ Sends < MaxSends
    /\ LET user_input == Strip(typed)
       IN  IF user_input = <<>>
           THEN UNCHANGED ui
           ELSE ui' = ShowMessage("shoma", user_input,
                                  [handler |-> "on_send", command |-> user_input,
                                   worker |-> 0, asked |-> Len(ui.messages) + 1])
    /\ UNCHANGED <<env, dotenv, sdk, agent, lastCreate, lastReq, workers, queue, cli, web>>

\* on_send after show_message returns: the input is disabled, a worker is
\* built on the agent the window holds now, and started
OnSendResume ==
    /\ ui.open
    /\ ui.stack # <<>>
    /\ Top.handler = "on_send"
    /\ ui' = [ui EXCEPT !.stack = Pop(@), !.enabled = FALSE,
                        !.worker = Len(workers) + 1]
    /\ workers' = Append(workers,
           [Start(SetCommand(WorkerThreadInit(agent), Top.command))
                EXCEPT !.asked = Top.asked])
    /\ UNCHANGED <<env, dotenv, sdk, agent, lastCreate, lastReq, queue, cli, web>>

\* A run whose inner try catches nothing
RunResultNoCatch(r) == Value(r.py, r.value)

\* The value WorkerThread.run emits for the outcome r of
\* asyncio.run(agent.process_request(command)): an exception becomes an
\* error dict
RunResult(r) ==
    IF r.raised
    THEN Value("dict", [type |-> "error", error |-> r.value])
    ELSE Value(r.py, r.value)

\* A run that asks the window for its agent
RunAgentOfWindow(w) == agent

\* self.agent in WorkerThread.run: the agent the worker was built on
RunAgent(w) == workers[w].agent

\* WorkerThread.run: asyncio.run(agent.process_request(command)) is over, in
\* the worker's thread, the vendor (when asked) answering v
WorkerResolve(w) ==
    /\ w \in DOMAIN workers
    /\ workers[w].pc = "started"
    /\ workers[w].has_command
    /\ \E v \in FrontOutcomes(RunAgent(w)) :
        LET r == ProcessRequest(RunAgent(w), sdk, workers[w].command, v)
        IN  workers' = [workers EXCEPT ![w] =
                [@ EXCEPT !.pc = "resolved",
                          !.vendor = IF r.calls = 0 THEN NoVendor ELSE v,
                          !.result = r,
                          !.call = Dispatch(RunAgent(w), sdk, "worker")]]
    /\ UNCHANGED <<env, dotenv, sdk, agent, lastCreate, lastReq, ui, queue, cli, web>>

\* WorkerThread.run without a command: one progress message is emitted and
\* run returns
WorkerNoCommand(w) ==
    /\ w \in DOMAIN workers
    /\ workers[w].pc = "started"
    /\ ~workers[w].has_command
    /\ workers' = [workers EXCEPT ![w] =
           [@ EXCEPT !.pc = "returned", !.emitted.progress = @ + 1]]
    /\ queue' = Append(queue, [signal |-> "progress", worker |-> w,
                               arg |-> Value("str", <<"no commands">>)])
    /\ UNCHANGED <<env, dotenv, sdk, agent, lastCreate, lastReq, ui, cli, web>>

\* What a slot receives for a value emitted through Signal(dict): a dict
\* arrives as it is; for a str the binding either passes the object on or
\* delivers the empty mapping it converts it to
SignalDict(value) ==
    IF value.py = "dict" THEN { value } ELSE { value, EmptyDict }

\* WorkerThread.run: self.finished.emit(result), then run returns.  The
\* receiver lives in the UI thread, so the call of the slot is queued
WorkerEmit(w) ==
    /\ w \in DOMAIN workers
    /\ workers[w].pc = "resolved"
    /\ \E arg \in SignalDict(RunResult(workers[w].result)) :
        /\ workers' = [workers EXCEPT ![w] =
               [@ EXCEPT !.pc = "emitted", !.arg = arg,
                         !.emitted.finished = @ + 1]]
        /\ queue' = Append(queue, [signal |-> "finished", worker |-> w, arg |-> arg])
    /\ UNCHANGED <<env, dotenv, sdk, agent, lastCreate, lastReq, ui, cli, web>>

\* The message _on_worker_finished shows for the value it receives
Reply(result) ==
    IF result.py = "dict"
    THEN IF Get(result, "error") # <<>>
         THEN [sender |-> "khata", message |-> Get(result, "error")]
         ELSE IF Get(result, "response") # <<>>
         THEN [sender |-> "sistem", message |-> Get(result, "response")]
         ELSE IF Get(result, "analysis") # <<>>
         THEN [sender |-> "tahlil", message |-> Get(result, "analysis")]
         ELSE IF Get(result, "recommendations") # <<>>
         THEN [sender |-> "pishnahadat",
               message |-> Join(Get(result, "recommendations"))]
         ELSE IF Get(result, "type") = "product_search" /\ HasKey(result, "search_params")
         THEN [sender |-> "sistem", message |-> result.value.search_params.response]
         ELSE [sender |-> "sistem", message |-> StrOfDict(result)]
    ELSE [sender |-> "sistem", message |-> result.value]

\* _on_worker_finished(result), from the delivery of the queued signal to
\* the processEvents() of show_message
OnWorkerFinished ==
    /\ ui.open
    /\ queue # <<>>
    /\ LET m == Reply(Head(queue).arg)
           w == Head(queue).worker
       IN  /\ ui' = ShowMessage(m.sender, m.message,
                                [handler |-> "_on_worker_finished",
                                 command |-> <<>>, worker |-> w, asked |-> 0])
           /\ workers' = [workers EXCEPT ![w] =
                  [@ EXCEPT !.pc = "showing", !.shown = Len(ui.messages) + 1]]
    /\ queue' = Tail(queue)
    /\ UNCHANGED <<env, dotenv, sdk, agent, lastCreate, lastReq, cli, web>>

\* The `finally` of _on_worker_finished: whatever was shown, the input is
\* enabled again
FinallyOnlyOnAnswer(result) == Get(result, "error") = <<>>

Finally(result) == TRUE

\* _on_worker_finished after show_message returns
OnWorkerFinishedResume ==
    /\ ui.open
    /\ ui.stack # <<>>
    /\ Top.handler = "_on_worker_finished"
    /\ ui' = [ui EXCEPT !.stack = Pop(@),
                        !.enabled = IF Finally(workers[Top.worker].arg)
                                    THEN TRUE ELSE @]
    /\ workers' = [workers EXCEPT ![Top.worker] = [@ EXCEPT !.pc = "handled"]]
    /\ UNCHANGED <<env, dotenv, sdk, agent, lastCreate, lastReq, queue, cli, web>>

\* on_provider_changed: the user picks the other provider; the model list is
\* refilled and the window's agent replaced.  The combo box is never
\* disabled
OnProviderChanged ==
    /\ ui.open
    /\ \E i \in DOMAIN ui.providers :
        /\ ui.providers[i] # ui.provider
        /\ LET r == CreateSelected(ui.providers[i], env, dotenv, sdk)
           IN  /\ ui' = [ui EXCEPT !.provider = ui.providers[i]]
               /\ env' = r.env
               /\ agent' = IF r.raised THEN agent ELSE r.client
               /\ lastCreate' = Created(Some(ProviderStr(ui.providers[i])),
                                        GetModels(ui.providers[i])[1], r, env)
    /\ UNCHANGED <<dotenv, sdk, lastReq, workers, queue, cli, web>>

----------------------------------------------------------------------------
(* The command-line loop: agent/cli.py.
     cli [pc, out, code, result, vendor, call, interrupts, cancel, exit]
        pc   "off" | "select" (select_ai_model is asking) | "loop" (the
             loop is asking for a request) | "returned" (main has returned)
             | "cancelled" (main has ended with CancelledError)
        out  the last thing printed: [what, text]
        code the value main returned (-1 when it has not returned)
        interrupts  the SIGINTs asyncio.run's handler has turned into a
             cancellation, 0 or 1 (cli.py needs
             Python 3.12 for the quotes nested in its f-strings, line 112;
             there asyncio.run installs its own SIGINT handler: the first
             SIGINT cancels the main task and raises nothing, a later one
             raises KeyboardInterrupt)
        cancel  the main task has a cancellation pending: CancelledError
             is thrown at the next await that suspends
        exit how the process ends (158-165): "0", "1", or
             "KeyboardInterrupt" when asyncio.run raises it for a cancelled
             main task ("running" before)                                    *)

\* What the user does when asked for a request: enters a line, ends the
\* input, or presses Ctrl-C
CliInputs ==
    { [kind |-> "line", s |-> s] :
        s \in GuiInputs \cup { <<"E","x","i","t">>, <<"q","u","i","t">> } }
    \cup { [kind |-> "EOFError", s |-> <<>>], [kind |-> "SIGINT", s |-> <<>>] }

Printed(what, text) == [what |-> what, text |-> text]

\* main() has printed its greeting, and select_ai_model has listed the
\* providers available in environment e and asks for one
CliStart(e) ==
    [pc |-> "select", out |-> Printed("greeting", <<>>), code |-> -1,
     providers |-> GetAvailableProviders(e),
     result |-> NoResult, vendor |-> NoVendor, call |-> NoCall,
     interrupts |-> 0, cancel |-> FALSE, exit |-> "running"]

\* select_ai_model(): the user picks provider i and its first model; should
\* create_client raise, the default configuration is used
SelectAiModel(i, e, f, s) ==
    LET provider == GetAvailableProviders(e)[i]
        r == CreateSelected(provider, e, f, s)
    IN  IF r.raised THEN CreateClientResult(NoneArg, "None", r.env, f, s) ELSE r

\* client = select_ai_model() in main: a provider is picked, or the input
\* ends and main returns 1
CliSelect ==
    /\ cli.pc = "select"
    /\ \/ \E i \in DOMAIN cli.providers :
            LET r == SelectAiModel(i, env, dotenv, sdk)
                provider == cli.providers[i]
            IN  /\ env' = r.env
                /\ agent' = r.client
                /\ lastCreate' = Created(Some(ProviderStr(provider)),
                                         GetModels(provider)[1], r, env)
                /\ cli' = [cli EXCEPT !.pc = "loop",
                                      !.out = Printed("selected", <<>>)]
       \/ /\ cli' = [cli EXCEPT !.pc = "returned", !.code = 1,
                                !.out = Printed("fatal", <<>>), !.exit = "1"]
          /\ UNCHANGED <<env, agent, lastCreate>>
    /\ UNCHANGED <<dotenv, sdk, lastReq, ui, workers, queue, web>>

\* What the loop prints for a response
CliPrint(response) ==
    IF response.py = "dict"
    THEN IF Get(response, "type") = "product_search" /\ HasKey(response, "search_params")
         THEN Printed("search_results", <<>>)
         ELSE IF Get(response, "type") = "product_analysis" /\ HasKey(response, "analysis")
         THEN Printed("analysis", Get(response, "analysis"))
         ELSE IF Get(response, "type") = "recommendation" /\ HasKey(response, "recommendations")
         THEN Printed("recommendations", Join(Get(response, "recommendations")))
         ELSE IF Get(response, "type") = "general_response" /\ HasKey(response, "response")
         THEN Printed("answer", Get(response, "response"))
         ELSE IF Get(response, "error") # <<>>
         THEN Printed("sorry", Get(response, "error"))
         ELSE Printed("dict", StrOfDict(response))
    ELSE Printed("str", response.value)

\* asyncio.run(main()) when main returns 0: the exit code is 0 unless the
\* main task was cancelled meanwhile; then the task ends cancelled whatever
\* main returned, and asyncio.run raises KeyboardInterrupt, which the
\* `except Exception` of line 162 lets through
ExitAfterReturn == IF cli.cancel THEN "KeyboardInterrupt" ELSE "0"

\* Whether a SIGINT raises KeyboardInterrupt in main: not the first one,
\* which asyncio.run's handler turns into a cancellation of the main task
SigintRaises(c) == c.interrupts >= 1

\* Whether `await resp_candidate` suspends the main task
Suspends(call) == call.mode \in {"awaited", "to_thread"}

\* One turn of the loop of main: a request is read; exit, quit, the end of
\* input and KeyboardInterrupt leave the loop and main returns 0; any other
\* line is processed on the loop's own thread and the response printed
CliRequest(in) ==
    /\ cli.pc = "loop"
    /\ IF in.kind = "EOFError"
       THEN cli' = [cli EXCEPT !.pc = "returned", !.code = 0,
                               !.out = Printed("ended", <<>>),
                               !.exit = ExitAfterReturn]
       ELSE IF in.kind = "SIGINT"
       THEN IF SigintRaises(cli)
            THEN cli' = [cli EXCEPT !.pc = "returned", !.code = 0,
                                    !.out = Printed("stopped", <<>>),
                                    !.exit = ExitAfterReturn]
            ELSE cli' = [cli EXCEPT !.interrupts = @ + 1, !.cancel = TRUE]
       ELSE IF Lower(in.s) \in { <<"e","x","i","t">>, <<"q","u","i","t">> }
       THEN cli' = [cli EXCEPT !.pc = "returned", !.code = 0,
                               !.out = Printed("goodbye", <<>>),
                               !.exit = ExitAfterReturn]
       ELSE IF cli.cancel /\ Suspends(Dispatch(agent, sdk, "main"))
       THEN cli' = [cli EXCEPT !.pc = "cancelled",
                               !.out = Printed("traceback", <<>>),
                               !.call = Dispatch(agent, sdk, "main"),
                               !.exit = "KeyboardInterrupt"]
       ELSE \E v \in FrontOutcomes(agent) :
               LET r == ProcessRequest(agent, sdk, in.s, v)
               IN  cli' = [cli EXCEPT
                             !.out = IF r.raised
                                     THEN Printed("sorry_processing", r.value)
                                     ELSE CliPrint(Value(r.py, r.value)),
                             !.result = r,
                             !.vendor = IF r.calls = 0 THEN NoVendor ELSE v,
                             !.call = Dispatch(agent, sdk, "main")]
    /\ UNCHANGED <<env, dotenv, sdk, agent, lastCreate, lastReq, ui, workers, queue, web>>

----------------------------------------------------------------------------
(* The runs of the front ends *)

\* The installed packages of the front-end runs
FrontSdks ==
    { [gemini |-> "GenerativeModel", openai |-> o] :
        o \in {"async", "sync", "old_chat"} }

\* The environments of the command-line runs: each credential missing,
\* empty or set
CliEnvironments ==
    { e \in Environments : e["GEMINI_MODEL"] = "None" }

\* Either the window has been built (MainWindow.__init__ creates the default
\* client), or the command-line program has been started
InitFront ==
    /\ dotenv = <<>>
    /\ sdk \in FrontSdks
    /\ lastReq = NoRequest
    /\ workers = <<>>
    /\ queue = <<>>
    /\ web = NoWeb
    /\ \/ \E e \in AppEnvironments :
            LET r == CreateClientResult(NoneArg, "None", e, <<>>, sdk)
            IN  /\ env = r.env
                /\ agent = r.client
                /\ lastCreate = Created(NoneArg, "None", r, e)
                /\ ui = MainWindowInit(r)
                /\ cli = NoCli
       \/ \E e \in CliEnvironments :
            /\ env = e
            /\ agent = NoClient
            /\ lastCreate = NoCreate
            /\ ui = NoWindow
            /\ cli = CliStart(e)

NextFront ==
    \/ \E typed \in GuiInputs : OnSend(typed)
    \/ OnSendResume
    \/ \E w \in 1..MaxSends : WorkerResolve(w)
    \/ \E w \in 1..MaxSends : WorkerEmit(w)
    \/ OnWorkerFinished
    \/ OnWorkerFinishedResume
    \/ OnProviderChanged
    \/ CliSelect
    \/ \E in \in CliInputs : CliRequest(in)

SpecFront == InitFront /\ [][NextFront]_vars

\* The texts typed into the window, one for each kind of result the OpenAI
\* client's classification gives, and a blank one
KindInputs ==
    GuiInputs \cup { <<"r","e","v","i","e","w">>, <<"s","u","g","g","e","s","t">> }

\* The window alone, with a request of every kind
InitWindow == InitFront /\ ui.open

NextWindow ==
    \/ \E typed \in KindInputs : OnSend(typed)
    \/ OnSendResume
    \/ \E w \in 1..MaxSends : WorkerResolve(w)
    \/ \E w \in 1..MaxSends : WorkerEmit(w)
    \/ OnWorkerFinished
    \/ OnWorkerFinishedResume
    \/ OnProviderChanged

SpecWindow == InitWindow /\ [][NextWindow]_vars

\* The scheduling the code relies on: run goes on to emit once the request
\* is over, the Qt event loop delivers a queued signal, and a handler
\* suspended in processEvents() resumes when no event is pending.  That a
\* vendor call returns is not assumed.
SpecFrontLive ==
    /\ SpecFront
    /\ WF_vars(\E w \in 1..MaxSends : WorkerEmit(w))
    /\ WF_vars(OnWorkerFinished)
    /\ WF_vars(OnSendResume)
    /\ WF_vars(OnWorkerFinishedResume)

----------------------------------------------------------------------------
(* A WorkerThread on its own: any agent, with or without a command *)

\* The agents a worker is built on: the clients the factory builds, and an
\* agent whose process_request raises
WorkerAgents(e, s) ==
    { CreateClientResult(p, "None", e, <<>>, s).client :
        p \in { Some(GeminiName), Some(OpenAIName), Some(<<"m","o","c","k">>) } }
    \cup { RaisingAgent }

\* The worker has been built, given a command or not, and started
InitWorker ==
    /\ dotenv = <<>>
    /\ sdk \in FrontSdks
    /\ env \in { e \in AppEnvironments : e["GOOGLE_API_KEY"] = "k" }
    /\ agent \in WorkerAgents(env, sdk)
    /\ lastCreate = NoCreate
    /\ lastReq = NoRequest
    /\ ui = NoWindow
    /\ cli = NoCli
    /\ web = NoWeb
    /\ queue = <<>>
    /\ \/ workers = << Start(WorkerThreadInit(agent)) >>
       \/ \E command \in Prompts :
            workers = << Start(SetCommand(WorkerThreadInit(agent), command)) >>

NextWorker ==
    \/ WorkerResolve(1)
    \/ WorkerEmit(1)
    \/ WorkerNoCommand(1)

SpecWorker == InitWorker /\ [][NextWorker]_vars

----------------------------------------------------------------------------
(* The site searches: agent/windows/web_automation.py.  A search is a
   coroutine; every await of a browser operation either returns or raises.
     web [pc, context, site, page, failed, products, ret, open, done]
        pc       "idle" | the await the search is at: "initialize",
                 "new_page", "goto", "wait_for_selector", "evaluate",
                 "close" | "except" | "finally" | "returned"
        context  self._context is set
        page     the local variable page: "None", "open" or "closed"
        failed   the except clause was entered
        ret      the list the search returns
        open     the pages open in the browser context
        done     the searches that have returned
   page.close() is taken not to raise.                                     *)

MaxSearches == 3

Sites == {"digikala", "technolife"}

\* What page.evaluate returns: the products found
ProductLists == { <<>>, <<"p">> }

\* WebAutomation(): no browser, no context
WebAutomationInit ==
    [pc |-> "idle", context |-> FALSE, site |-> "none", page |-> "None",
     failed |-> FALSE, products |-> <<>>, ret |-> <<>>, open |-> 0, done |-> 0]

\* _search_digikala(query) or _search_technolife(query) is called:
\* page = None, and the context is initialized first when there is none
WebSearch(site) ==
    /\ web.pc \in {"idle", "returned"}
    /\ web.done < MaxSearches
    /\ web' = [web EXCEPT !.site = site, !.page = "None", !.failed = FALSE,
                          !.products = <<>>, !.ret = <<>>,
                          !.pc = IF web.context THEN "new_page" ELSE "initialize"]
    /\ UNCHANGED <<env, dotenv, sdk, agent, lastCreate, lastReq, ui, workers, queue, cli>>

\* await self.initialize(): the browser and the context are there, or
\* both are None and RuntimeError is raised
WebInitialize(ok) ==
    /\ web.pc = "initialize"
    /\ web' = [web EXCEPT !.context = ok,
                          !.pc = IF ok THEN "new_page" ELSE "except"]
    /\ UNCHANGED <<env, dotenv, sdk, agent, lastCreate, lastReq, ui, workers, queue, cli>>

\* page = await self._context.new_page()
WebNewPage(ok) ==
    /\ web.pc = "new_page"
    /\ web' = IF ok
              THEN [web EXCEPT !.page = "open", !.open = @ + 1, !.pc = "goto"]
              ELSE [web EXCEPT !.pc = "except"]
    /\ UNCHANGED <<env, dotenv, sdk, agent, lastCreate, lastReq, ui, workers, queue, cli>>

\* await page.goto(url)
WebGoto(ok) ==
    /\ web.pc = "goto"
    /\ web' = [web EXCEPT !.pc = IF ok THEN "wait_for_selector" ELSE "except"]
    /\ UNCHANGED <<env, dotenv, sdk, agent, lastCreate, lastReq, ui, workers, queue, cli>>

\* await page.wait_for_selector(selector)
WebWaitForSelector(ok) ==
    /\ web.pc = "wait_for_selector"
    /\ web' = [web EXCEPT !.pc = IF ok THEN "evaluate" ELSE "except"]
    /\ UNCHANGED <<env, dotenv, sdk, agent, lastCreate, lastReq, ui, workers, queue, cli>>

\* Where a search goes on after its evaluate: _search_digikala returns the
\* products through its finally clause, _search_technolife closes the page
\* itself and returns
AfterEvaluate(site) == IF site = "digikala" THEN "finally" ELSE "close"

\* Where a search goes on after its except clause: _search_digikala has a
\* finally clause, _search_technolife returns at once
AfterExcept(site) == IF site = "digikala" THEN "finally" ELSE "returned"

\* products = await page.evaluate(script)
WebEvaluate(ok, products) ==
    /\ web.pc = "evaluate"
    /\ web' = IF ok
              THEN [web EXCEPT !.products = products, !.ret = products,
                               !.pc = AfterEvaluate(web.site)]
              ELSE [web EXCEPT !.pc = "except"]
    /\ UNCHANGED <<env, dotenv, sdk, agent, lastCreate, lastReq, ui, workers, queue, cli>>

\* _search_technolife: await page.close(); return products
WebClose ==
    /\ web.pc = "close"
    /\ web' = [web EXCEPT !.page = "closed", !.open = @ - 1,
                          !.pc = "returned", !.done = @ + 1]
    /\ UNCHANGED <<env, dotenv, sdk, agent, lastCreate, lastReq, ui, workers, queue, cli>>

\* except Exception: return []
WebExcept ==
    /\ web.pc = "except"
    /\ web' = [web EXCEPT !.failed = TRUE, !.ret = <<>>,
                          !.pc = AfterExcept(web.site),
                          !.done = IF AfterExcept(web.site) = "returned"
                                   THEN @ + 1 ELSE @]
    /\ UNCHANGED <<env, dotenv, sdk, agent, lastCreate, lastReq, ui, workers, queue, cli>>

\* finally: if page: await page.close(); then the search returns
WebFinally ==
    /\ web.pc = "finally"
    /\ web' = IF web.page = "open"
              THEN [web EXCEPT !.page = "closed", !.open = @ - 1,
                               !.pc = "returned", !.done = @ + 1]
              ELSE [web EXCEPT !.pc = "returned", !.done = @ + 1]
    /\ UNCHANGED <<env, dotenv, sdk, agent, lastCreate, lastReq, ui, workers, queue, cli>>

\* The environment and the vendor packages play no part in a search
InitWeb ==
    /\ dotenv = <<>>
    /\ sdk = CHOOSE s \in FrontSdks : TRUE
    /\ env = CHOOSE e \in CliEnvironments : TRUE
    /\ agent = NoClient
    /\ lastCreate = NoCreate
    /\ lastReq = NoRequest
    /\ ui = NoWindow
    /\ workers = <<>>
    /\ queue = <<>>
    /\ cli = NoCli
    /\ web = WebAutomationInit

NextWeb ==
    \/ \E site \in Sites : WebSearch(site)
    \/ \E ok \in BOOLEAN : WebInitialize(ok)
    \/ \E ok \in BOOLEAN : WebNewPage(ok)
    \/ \E ok \in BOOLEAN : WebGoto(ok)
    \/ \E ok \in BOOLEAN : WebWaitForSelector(ok)
    \/ \E ok \in BOOLEAN, products \in ProductLists : WebEvaluate(ok, products)
    \/ WebClose
    \/ WebExcept
    \/ WebFinally

SpecWeb == InitWeb /\ [][NextWeb]_vars

----------------------------------------------------------------------------
(* Vocabulary of the claims *)

Kinds == {"general_response", "product_search", "product_analysis",
          "recommendation", "error"}

Done == lastReq.phase = "done"

DoneBy(name) == Done /\ lastReq.client.name = name

\* The prompt contains a keyword of the set, matched case-insensitively as
\* a substring
HasKeyword(prompt, keywords) ==
    LET lowered == Lower(prompt)
    IN  \E k \in keywords : \E i \in 1..(Len(lowered) - Len(k) + 1) :
            SubSeq(lowered, i, i + Len(k) - 1) = k

\* The kind that keyword matching on the prompt gives
KeywordKind(prompt) ==
    CASE HasKeyword(prompt, PurchaseKeywords) -> "product_search"
      [] HasKeyword(prompt, AnalysisKeywords) -> "product_analysis"
      [] HasKeyword(prompt, RecommendKeywords) -> "recommendation"
      [] OTHER -> "general_response"

\* The result is a tagged value of the given kind
IsKind(result, kind) ==
    ~result.raised /\ result.py = "dict" /\ result.value.type = kind

\* create_client was called with this provider name, in any letter case
CreatedWith(name) ==
    /\ lastCreate.called
    /\ lastCreate.provider.some
    /\ Lower(lastCreate.provider.s) = name

\* create_client was called without a provider
CreatedByDefault == lastCreate.called /\ ~lastCreate.provider.some

----------------------------------------------------------------------------
(* C1 *)

----------------------------------------------------------------------------
(* C2 *)

\* C2 as stated: if the vendor call raises, the OpenAI and the Gemini
\* client return a result of kind error with a non-empty message.
C2_Original ==
    (Done /\ lastReq.vendor.raises) =>
        (IsKind(lastReq.result, "error") /\ lastReq.result.value.error # <<>>)

\* C2 amended: if the vendor call raises, no exception leaves
\* process_request; the OpenAI client returns kind error whose message is
\* the string form of the exception (empty when the exception has no
\* message); the Gemini client returns an untagged, non-empty str: the error
\* prefix followed by the message that the generation API could not be
\* called.
C2_VendorRaises ==
    (Done /\ lastReq.vendor.raises) =>
        /\ ~lastReq.result.raised
        /\ lastReq.client.name = "openai" =>
               (IsKind(lastReq.result, "error")
                /\ lastReq.result.value.error = lastReq.vendor.msg)
        /\ lastReq.client.name = "gemini" =>
               (lastReq.result.py = "str"
                /\ lastReq.result.value = KhataPrefix \o FailedToCallMsg
                /\ lastReq.result.value # <<>>)

\* The vendor call of a Gemini client raised and the request has ended
C2_Witness ==
    DoneBy("gemini") /\ lastReq.vendor.raises /\ lastReq.vendor.msg # <<>>

----------------------------------------------------------------------------
(* C3 *)

\* C3 as stated: for every client each request yields a tagged value whose
\* kind is one of the five kinds, chosen by keyword matching on the prompt.
C3_Original ==
    Done =>
        /\ ~lastReq.result.raised
        /\ lastReq.result.py = "dict"
        /\ lastReq.result.value.type \in Kinds
        /\ lastReq.result.value.type \in {"error", KeywordKind(lastReq.prompt)}

\* C3 amended: each request yields exactly one returned value.  For the
\* OpenAI client it is a tagged value whose kind is error or the kind that
\* keyword matching on the prompt gives; for the mock client it is a tagged
\* value of kind general_response whatever the prompt; the Gemini client
\* returns an untagged str.
C3_ResultShape ==
    Done =>
        /\ ~lastReq.result.raised
        /\ lastReq.client.name = "openai" =>
               (lastReq.result.py = "dict"
                /\ lastReq.result.value.type \in Kinds
                /\ lastReq.result.value.type
                       \in {"error", KeywordKind(lastReq.prompt)})
        /\ lastReq.client.name = "mock" =>
               IsKind(lastReq.result, "general_response")
        /\ lastReq.client.name = "gemini" => lastReq.result.py = "str"

\* An OpenAI client classified a prompt with upper-case letters by keyword
C3_Witness ==
    /\ DoneBy("openai")
    /\ IsKind(lastReq.result, "product_analysis")
    /\ lastReq.prompt # Lower(lastReq.prompt)

----------------------------------------------------------------------------
(* C4 *)

\* C4: create_client never raises, whatever the provider, the model, the
\* credentials and the installed packages; when no real client is built
\* the mock client is returned.
C4_NeverRaises ==
    lastCreate.called =>
        /\ ~lastCreate.raised
        /\ agent.name \in {"gemini", "openai", "mock"}
        /\ lastCreate.attempts # <<>>
        /\ agent.name = lastCreate.attempts[Len(lastCreate.attempts)]

\* Both real constructions were attempted and failed; the mock was returned
C4_Witness ==
    /\ lastCreate.called
    /\ lastCreate.attempts = <<"gemini", "openai", "mock">>
    /\ agent.name = "mock"

----------------------------------------------------------------------------
(* C5 *)

\* The construction of a client succeeds in the environment of the call
GeminiBuilds ==
    GeminiClientInit(lastCreate.envBefore, dotenv, sdk, lastCreate.model).exc = ""

OpenAIBuilds ==
    OpenAIClientInit(lastCreate.envBefore, dotenv, sdk).exc = ""

\* C5: without a provider, Gemini is returned when its credential is set
\* and its construction succeeds; otherwise OpenAI when its credential is
\* set and its construction succeeds; the mock when neither credential is
\* present.
C5_DefaultOrder ==
    CreatedByDefault =>
        LET g == Truthy(lastCreate.envBefore["GOOGLE_API_KEY"])
            o == Truthy(lastCreate.envBefore["OPENAI_API_KEY"])
        IN  /\ (g /\ GeminiBuilds) => agent.name = "gemini"
            /\ (~(g /\ GeminiBuilds) /\ o /\ OpenAIBuilds) => agent.name = "openai"
            /\ (~g /\ ~o) => agent.name = "mock"
            /\ lastCreate.attempts \in
                   { <<"gemini">>, <<"gemini", "openai">>, <<"openai">>,
                     <<"gemini", "openai", "mock">>, <<"gemini", "mock">>,
                     <<"openai", "mock">>, <<"mock">> }

\* Both credentials set, the Gemini construction failed, OpenAI returned
C5_Witness ==
    /\ CreatedByDefault
    /\ Truthy(lastCreate.envBefore["GOOGLE_API_KEY"])
    /\ lastCreate.attempts = <<"gemini", "openai">>
    /\ agent.name = "openai"

----------------------------------------------------------------------------
(* C6 *)

\* C6 as stated: an explicit provider is matched case-insensitively and
\* attempted first; if its construction fails the next provider in the
\* order Gemini, OpenAI is attempted, and the mock is returned only after
\* the remaining providers have failed.
C6_Original ==
    /\ CreatedWith(GeminiName) =>
           /\ lastCreate.attempts[1] = "gemini"
           /\ agent.name # "gemini" => 
                  (Len(lastCreate.attempts) >= 2 /\ lastCreate.attempts[2] = "openai")
    /\ CreatedWith(OpenAIName) => lastCreate.attempts[1] = "openai"

\* C6 amended: an explicit provider is matched case-insensitively and that
\* client is attempted first; if its construction fails no other real
\* provider is attempted and the mock client is returned.
C6_ExplicitProvider ==
    /\ CreatedWith(GeminiName) =>
           \/ (lastCreate.attempts = <<"gemini">> /\ agent.name = "gemini")
           \/ (lastCreate.attempts = <<"gemini", "mock">> /\ agent.name = "mock")
    /\ CreatedWith(OpenAIName) =>
           \/ (lastCreate.attempts = <<"openai">> /\ agent.name = "openai")
           \/ (lastCreate.attempts = <<"openai", "mock">> /\ agent.name = "mock")

\* Gemini was requested in mixed case and failed while OpenAI could have
\* been built; the mock was returned
C6_Witness ==
    /\ CreatedWith(GeminiName)
    /\ lastCreate.provider.s # GeminiName
    /\ lastCreate.attempts = <<"gemini", "mock">>
    /\ Truthy(lastCreate.envBefore["OPENAI_API_KEY"])
    /\ OpenAIBuilds

----------------------------------------------------------------------------
(* C7 *)

NoCredentials ==
    /\ lastCreate.envBefore["GOOGLE_API_KEY"] = "None"
    /\ lastCreate.envBefore["OPENAI_API_KEY"] = "None"

\* C7: with no credential variable set, create_client() returns the mock
\* client, and every request on that client returns kind general_response
\* without raising.
C7_NoCredentialsMock ==
    (CreatedByDefault /\ NoCredentials) =>
        /\ agent.name = "mock"
        /\ (Done /\ lastReq.client = agent) =>
               IsKind(lastReq.result, "general_response")

\* The default client of an environment without credentials answered a
\* prompt that holds a keyword
C7_Witness ==
    /\ CreatedByDefault /\ NoCredentials
    /\ Done /\ lastReq.client = agent
    /\ KeywordKind(lastReq.prompt) = "recommendation"

----------------------------------------------------------------------------
(* C8 *)

\* C8: the mock client's process_request succeeds for every prompt and
\* returns kind general_response whose payload is the prompt, unchanged.
C8_MockEcho ==
    DoneBy("mock") =>
        /\ IsKind(lastReq.result, "general_response")
        /\ lastReq.result.value.response = lastReq.prompt

\* The mock answered a prompt with a keyword, upper case and a trailing blank
C8_Witness ==
    /\ DoneBy("mock")
    /\ KeywordKind(lastReq.prompt) = "product_search"
    /\ lastReq.prompt # Strip(lastReq.prompt)
    /\ lastReq.prompt # Lower(lastReq.prompt)

----------------------------------------------------------------------------
(* C9 *)

\* C9: for every prompt holding a purchase keyword (price, cost, buy,
\* purchase, in any letter case, as a substring) that the OpenAI client
\* classifies (the request does not end as kind error), the kind is
\* product_search and the query of its payload is the prompt, unchanged.
C9_PurchaseKeyword ==
    (DoneBy("openai") /\ HasKeyword(lastReq.prompt, PurchaseKeywords)
     /\ ~IsKind(lastReq.result, "error")) =>
        /\ IsKind(lastReq.result, "product_search")
        /\ lastReq.result.value.search_params.query = lastReq.prompt

\* A prompt with a purchase keyword in upper case and a trailing blank was
\* classified
C9_Witness ==
    /\ DoneBy("openai")
    /\ IsKind(lastReq.result, "product_search")
    /\ lastReq.prompt # Strip(lastReq.prompt)
    /\ lastReq.prompt # Lower(lastReq.prompt)

----------------------------------------------------------------------------
(* C10 *)

\* C10: for every prompt holding no purchase, analysis or recommendation
\* keyword that the OpenAI client classifies (the request does not end as
\* kind error), the kind is general_response and the payload is the text
\* extracted from the vendor response.
C10_NoKeyword ==
    (DoneBy("openai") /\ KeywordKind(lastReq.prompt) = "general_response"
     /\ ~IsKind(lastReq.result, "error")) =>
        /\ IsKind(lastReq.result, "general_response")
        /\ lastReq.result.value.response = lastReq.result.text
        /\ lastReq.result.calls = 1 =>
               lastReq.result.text = OpenAIExtract(lastReq.vendor.response)

\* A prompt without keyword got a non-empty text as its general response
C10_Witness ==
    /\ DoneBy("openai")
    /\ lastReq.prompt # <<>>
    /\ IsKind(lastReq.result, "general_response")
    /\ lastReq.result.value.response = <<"o","k">>

----------------------------------------------------------------------------
(* C11 *)

\* C11: the OpenAI client classifies by the first keyword set, in the order
\* purchase, analysis, recommendation, that has a keyword in the prompt, and
\* general otherwise: a prompt with a purchase keyword is product_search
\* whatever else it holds, one with an analysis keyword and no purchase
\* keyword is product_analysis, and so on; the returned mapping holds the
\* kind and the payload field of that kind, and no other field.
C11_FirstMatchWins ==
    (DoneBy("openai") /\ ~IsKind(lastReq.result, "error")) =>
        LET p == HasKeyword(lastReq.prompt, PurchaseKeywords)
            a == HasKeyword(lastReq.prompt, AnalysisKeywords)
            r == HasKeyword(lastReq.prompt, RecommendKeywords)
            v == lastReq.result.value
        IN  /\ p => (v.type = "product_search"
                     /\ DOMAIN v = {"type", "search_params"})
            /\ (~p /\ a) => (v.type = "product_analysis"
                             /\ DOMAIN v = {"type", "analysis"})
            /\ (~p /\ ~a /\ r) => (v.type = "recommendation"
                                   /\ DOMAIN v = {"type", "recommendations"})
            /\ (~p /\ ~a /\ ~r) => (v.type = "general_response"
                                    /\ DOMAIN v = {"type", "response"})

\* A prompt with an analysis and a recommendation keyword was classified as
\* product_analysis
C11_Witness ==
    /\ DoneBy("openai")
    /\ HasKeyword(lastReq.prompt, AnalysisKeywords)
    /\ HasKeyword(lastReq.prompt, RecommendKeywords)
    /\ IsKind(lastReq.result, "product_analysis")

----------------------------------------------------------------------------
(* C12 *)

\* The lines of a text, each stripped, the empty ones left out
StrippedLines(text) ==
    LET lines == SplitLines(text)
    IN  SelectSeq([i \in DOMAIN lines |-> Strip(lines[i])],
                  LAMBDA l : l # <<>>)

\* C12: a result of kind recommendation carries the non-empty lines of the
\* extracted text, each stripped, in their order; and a prompt whose first
\* matching set is the recommendation set, answered with an empty extracted
\* text, gives kind recommendation with an empty list, not kind error.
C12_RecommendationLines ==
    /\ (DoneBy("openai") /\ IsKind(lastReq.result, "recommendation")) =>
           lastReq.result.value.recommendations
               = StrippedLines(lastReq.result.text)
    /\ (DoneBy("openai") /\ KeywordKind(lastReq.prompt) = "recommendation"
        /\ ~lastReq.vendor.raises /\ lastReq.result.text = <<>>
        /\ lastReq.result.calls = 1) =>
           (IsKind(lastReq.result, "recommendation")
            /\ lastReq.result.value.recommendations = <<>>)

\* A text of several lines, one of them blank, was split into two
\* recommendations
C12_Witness ==
    /\ DoneBy("openai")
    /\ IsKind(lastReq.result, "recommendation")
    /\ Len(SplitLines(lastReq.result.text)) = 3
    /\ lastReq.result.value.recommendations = << <<"a">>, <<"b">> >>

\* The vendor answered without a usable text and the recommendation list
\* is empty
C12_EmptyText ==
    /\ DoneBy("openai")
    /\ lastReq.result.calls = 1
    /\ lastReq.result.text = <<>>
    /\ IsKind(lastReq.result, "recommendation")

----------------------------------------------------------------------------
(* C13 *)

\* The client of the request finds none of the call shapes it knows on the
\* installed package, so that it makes no vendor call
NoCallShape ==
    \/ /\ lastReq.client.name = "openai"
       /\ ~(lastReq.client.client # "None" /\ lastReq.client.has_chat)
       /\ lastReq.client.openai_module \notin {"old_chat", "old_completion"}
    \/ /\ lastReq.client.name = "gemini"
       /\ sdk.gemini = "noshape"

\* C13 as stated: when no known call shape exists on the installed package,
\* process_request returns kind error, never a classified non-error result
\* built from the missing response.
C13_Original ==
    (Done /\ NoCallShape) =>
        (lastReq.result.calls = 0 /\ IsKind(lastReq.result, "error"))

----------------------------------------------------------------------------
(* C14 *)

\* The vendor call returned and the text cannot be read from its response:
\* the response is None, has no choices, or raises when read
ExtractionFails ==
    /\ DoneBy("openai")
    /\ lastReq.result.calls = 1
    /\ ~lastReq.vendor.raises
    /\ \/ lastReq.vendor.response.t \in {"none", "empty", "bad"}
       \/ lastReq.vendor.response.choices = <<>>

\* C14 as stated: when the extraction of the text from the raw vendor
\* response fails, process_request returns kind error rather than a
\* classified result.
C14_Original ==
    ExtractionFails => IsKind(lastReq.result, "error")

\* C14 amended: when the extraction of the text from the raw vendor response
\* fails, the OpenAI client does not return kind error: it takes the
\* stripped string form of the response as the text (the empty text when
\* the response is None or an empty mapping) and returns the result that keyword matching on
\* the prompt gives, built from that text.
C14_ExtractionFallback ==
    ExtractionFails =>
        /\ ~IsKind(lastReq.result, "error")
        /\ lastReq.result.text =
               (IF lastReq.vendor.response.t \in {"none", "empty"} THEN <<>>
                ELSE Strip(lastReq.vendor.response.repr))
        /\ IsKind(lastReq.result, KeywordKind(lastReq.prompt))
        /\ IsKind(lastReq.result, "general_response") =>
               lastReq.result.value.response = lastReq.result.text
        /\ IsKind(lastReq.result, "product_analysis") =>
               lastReq.result.value.analysis = lastReq.result.text

\* A response without choices was answered with the string form of the
\* response as a general response
C14_Witness ==
    /\ ExtractionFails
    /\ lastReq.vendor.response.t = "obj"
    /\ lastReq.vendor.response.choices = <<>>
    /\ IsKind(lastReq.result, "general_response")
    /\ lastReq.result.value.response = Strip(ResponseRepr)
    /\ lastReq.result.value.response # <<>>

----------------------------------------------------------------------------
(* C18 *)

\* The request ended as an error: a tagged value of kind error, or the
\* error string of the Gemini client
EndsAsError ==
    \/ IsKind(lastReq.result, "error")
    \/ /\ lastReq.result.py = "str"
       /\ Len(lastReq.result.value) >= Len(KhataPrefix)
       /\ SubSeq(lastReq.result.value, 1, Len(KhataPrefix)) = KhataPrefix

\* C18 as stated: for one process_request the vendor API is attempted at
\* most once and the client is configured without retries; after a failed
\* attempt nothing more is tried and the request ends as an error result.
C18_Original ==
    Done =>
        /\ lastReq.result.calls <= 1
        /\ lastReq.vendor.tries <= 1
        /\ lastReq.client.name = "openai" => lastReq.client.max_retries = 0
        /\ lastReq.vendor.raises => EndsAsError

\* C18 amended: process_request makes at most one call of a vendor method
\* and tries no other call shape and no repetition after its failure, the
\* request then ending as an error result; but the new-SDK OpenAI client is
\* built with max_retries = 3, so the SDK may make up to four HTTP attempts
\* inside that one call; the old-style OpenAI client, the Gemini client and
\* the mock configure no retries.
C18_SingleCall ==
    Done =>
        /\ lastReq.result.calls <= 1
        /\ lastReq.client.name = "openai" =>
               /\ lastReq.client.max_retries =
                      (IF lastReq.client.client # "None" THEN 3 ELSE 0)
               /\ lastReq.vendor.tries <= 1 + lastReq.client.max_retries
        /\ lastReq.client.name # "openai" => lastReq.vendor.tries <= 1
        /\ lastReq.vendor.raises =>
               (lastReq.result.calls = 1 /\ EndsAsError)

\* The one call of a new-SDK OpenAI client failed after four attempts of
\* the SDK and the request ended as kind error
C18_Witness ==
    /\ DoneBy("openai")
    /\ lastReq.vendor.raises
    /\ lastReq.vendor.tries = 4
    /\ lastReq.result.calls = 1
    /\ IsKind(lastReq.result, "error")

----------------------------------------------------------------------------
(* C20 *)

\* The strategies of the extraction on a raw response, in their order: for
\* each, whether its value is present and truthy, and the text it yields.
\* For a mapping the keys output, text, content, candidates; for another
\* object the attributes text, output, content.
StrategiesOf(raw) ==
    LET keys == <<"output", "text", "content", "candidates">>
        attrs == <<"text", "output", "content">>
        absent == [truthy |-> FALSE, text |-> <<>>]
    IN  IF raw.t = "dict"
        THEN [i \in 1..4 |->
                 IF keys[i] \in DOMAIN raw.d
                 THEN [truthy |-> ValTruthy(raw.d[keys[i]]),
                       text |-> ValText(raw.d[keys[i]])]
                 ELSE absent]
        ELSE IF raw.t = "obj"
        THEN [i \in 1..3 |->
                 IF attrs[i] \in DOMAIN raw.d
                 THEN [truthy |-> ValTruthy(raw.d[attrs[i]]),
                       text |-> AttrValText(raw.d[attrs[i]])]
                 ELSE absent]
        ELSE <<>>

\* str(raw)
StringForm(raw) == IF raw.t = "str" THEN raw.s ELSE raw.repr

\* The text of the first strategy among those of the index set, the string
\* form when the set is empty
FirstOf(raw, idx) ==
    IF idx = {} THEN StringForm(raw)
    ELSE StrategiesOf(raw)[CHOOSE i \in idx : \A j \in idx : i <= j].text

\* The Gemini client extracted a text from the raw response of its call
Extracted ==
    DoneBy("gemini") /\ lastReq.result.calls = 1 /\ ~lastReq.vendor.raises
    /\ lastReq.vendor.raw.t # "none"

\* C20 as stated: the extraction tries its strategies in the fixed order and
\* stops at the first that yields a non-empty text, the string form of the
\* response being the last.
C20_Original ==
    Extracted =>
        LET raw == lastReq.vendor.raw
            st == StrategiesOf(raw)
        IN  lastReq.result.text
                = FirstOf(raw, {i \in DOMAIN st : st[i].text # <<>>})

\* C20 amended: the extraction tries its strategies in the fixed order and
\* stops at the first whose value is present and truthy, returning the text
\* of that value even when that text is empty (a non-empty list all of whose
\* items are empty); with no such value it returns the string form of the
\* response.
C20_ExtractionOrder ==
    Extracted =>
        LET raw == lastReq.vendor.raw
            st == StrategiesOf(raw)
        IN  lastReq.result.text
                = FirstOf(raw, {i \in DOMAIN st : st[i].truthy})

\* A mapping with an output, a text and a content gave its output
C20_Witness ==
    /\ Extracted
    /\ lastReq.vendor.raw.t = "dict"
    /\ {"output", "text", "content"} \subseteq DOMAIN lastReq.vendor.raw.d
    /\ lastReq.result.text = <<"o">>

----------------------------------------------------------------------------
(* Vocabulary of the front-end claims *)

\* The workers the window has started
Started == DOMAIN workers

\* Worker w's request is in flight: started, its reply not yet handled
InFlight(w) == w \in Started /\ workers[w].pc # "handled"

\* The reply to worker w has been shown and its slot has returned
Handled(w) == w \in Started /\ workers[w].pc = "handled"

\* Worker w ended with an outcome of this sort: "error" (an error result),
\* "str" (a plain string), "answer" (any other result)
EndedAs(w, sort) ==
    /\ w \in Started
    /\ workers[w].pc # "started"
    /\ sort = (IF IsKind(workers[w].result, "error") THEN "error"
               ELSE IF workers[w].result.py = "str" THEN "str" ELSE "answer")

----------------------------------------------------------------------------
(* C15 *)

\* C15: in the window every send disables the input controls, and once the
\* request of a worker is over (with an answer, an error result or a plain
\* string) its reply is handled and the input controls are enabled again.
C15_InputReenabled ==
    /\ [][Len(workers') > Len(workers) => ~ui'.enabled]_vars
    /\ \A w \in 1..MaxSends :
          (w \in Started /\ workers[w].pc = "resolved")
              ~> (Handled(w) /\ ui.enabled)

\* Two requests have been sent, one ended as an error result and one with
\* an answer, both replies are handled and the input is enabled
C15_Witness ==
    /\ ui.open
    /\ ui.enabled
    /\ \E w1, w2 \in Started :
          /\ Handled(w1) /\ EndedAs(w1, "error")
          /\ Handled(w2) /\ EndedAs(w2, "answer")

----------------------------------------------------------------------------
(* C16 *)

\* Worker w's run has begun and its result is not yet delivered to the slot
Undelivered(w) ==
    w \in Started /\ workers[w].pc \in {"started", "resolved", "emitted"}

\* C16 as stated: in the window at most one request is in flight at any
\* time: between the start of a worker by on_send and the delivery of its
\* result no other worker is started.
C16_Original ==
    \A w1, w2 \in Started : (Undelivered(w1) /\ Undelivered(w2)) => w1 = w2

----------------------------------------------------------------------------
(* C17 *)

\* The reply to worker w has been shown (its slot may not have returned)
Shown(w) == w \in Started /\ workers[w].pc \in {"showing", "handled"}

\* The command-line loop has printed the response to a request
CliAnswered ==
    /\ cli.pc \in {"loop", "returned"}
    /\ cli.out.what \notin {"selected", "goodbye", "ended", "stopped", "traceback"}

\* C17 as stated: when a request ends in kind error, the window shows an
\* error message (the message of the result, under the error sender) and
\* the command-line loop prints its error line, in place of a normal answer;
\* afterwards the next request is accepted: the window's input is enabled
\* once the slot has returned and nothing else is pending, and the loop asks
\* for the next request.
C17_Original ==
    /\ \A w \in Started :
          (Shown(w) /\ IsKind(workers[w].result, "error")) =>
              /\ ui.messages[workers[w].shown] =
                     [sender |-> "khata", message |-> workers[w].result.value.error]
              /\ workers[w].result.value.error # <<>>
              /\ (Handled(w) /\ ui.stack = <<>> /\ \A x \in Started : Handled(x))
                     => ui.enabled
    /\ (CliAnswered /\ IsKind(cli.result, "error")) =>
          /\ cli.out = Printed("sorry", cli.result.value.error)
          /\ cli.out.text # <<>>
          /\ cli.pc = "loop"

\* What the code does for a request that ends in kind error: a non-empty
\* message is shown as an error message; an empty one falls through to the
\* fallback, which shows the mapping itself; either way the next request is
\* accepted
C17_NonEmptyMessage ==
    /\ \A w \in Started :
          (Shown(w) /\ IsKind(workers[w].result, "error")) =>
              /\ ui.messages[workers[w].shown] =
                     IF workers[w].result.value.error # <<>>
                     THEN [sender |-> "khata",
                           message |-> workers[w].result.value.error]
                     ELSE [sender |-> "sistem", message |-> <<"{", "error", "}">>]
              /\ (Handled(w) /\ ui.stack = <<>> /\ \A x \in Started : Handled(x))
                     => ui.enabled
    /\ (CliAnswered /\ IsKind(cli.result, "error")) =>
          /\ cli.out = IF cli.result.value.error # <<>>
                       THEN Printed("sorry", cli.result.value.error)
                       ELSE Printed("dict", <<"{", "error", "}">>)
          /\ cli.pc = "loop"

----------------------------------------------------------------------------
(* C19 *)

\* The requests that are over: [client, result, call, loop], loop being the
\* thread whose event loop drove process_request
RequestsOver ==
    { [client |-> workers[w].agent, result |-> workers[w].result,
       call |-> workers[w].call, loop |-> "worker"] :
        w \in { x \in Started : workers[x].pc # "started" } }
    \cup (IF CliAnswered
          THEN { [client |-> agent, result |-> cli.result, call |-> cli.call,
                  loop |-> "main"] }
          ELSE {})

\* The slot handling worker w's result is on the stack of the UI thread
\* exactly while the reply is shown and the slot has not returned
HandledOnUiThread ==
    \A w \in Started :
        workers[w].pc = "showing"
            <=> \E i \in DOMAIN ui.stack :
                    /\ ui.stack[i].handler = "_on_worker_finished"
                    /\ ui.stack[i].worker = w

\* C19 as stated: every vendor call process_request makes is dispatched off
\* the thread that runs the event loop, to a background thread or as an
\* awaited call, and blocks no event loop; in the window the call never runs
\* on the UI thread and the result is handled on the UI thread.
C19_Original ==
    /\ \A q \in RequestsOver :
          q.result.calls >= 1 =>
              /\ q.call.mode \in {"to_thread", "awaited"}
              /\ q.call.blocks = "none"
              /\ q.call.thread # "ui"
    /\ ui.open => HandledOnUiThread

\* C19, corrected: the Gemini client makes its vendor call in a background
\* thread and awaits it; the OpenAI client awaits the call of the async
\* client, but makes the call of the sync client and of the old-style
\* package inline, in the coroutine, which blocks the event loop of the
\* thread that drives it: the worker thread in the window, the main thread
\* in the command-line loop.  In the window no vendor call runs on the UI
\* thread, and the result is handled on the UI thread.
C19_Dispatch ==
    /\ \A q \in RequestsOver :
          /\ q.call.mode = "none" <=> q.result.calls = 0
          /\ q.call.thread # "ui"
          /\ q.client.name = "gemini" /\ q.result.calls >= 1 =>
                q.call = [mode |-> "to_thread", thread |-> "pool", blocks |-> "none"]
          /\ q.client.name = "openai" /\ q.result.calls >= 1 =>
                IF q.client.is_async
                THEN q.call = [mode |-> "awaited", thread |-> q.loop, blocks |-> "none"]
                ELSE q.call = [mode |-> "inline", thread |-> q.loop, blocks |-> q.loop]
    /\ ui.open => HandledOnUiThread

\* In the window a request to the sync OpenAI client is over: its vendor
\* call ran inline on the worker thread; and its reply is being shown
C19_Witness ==
    /\ ui.open
    /\ \E w \in Started :
          /\ workers[w].pc = "showing"
          /\ workers[w].agent.name = "openai"
          /\ ~workers[w].agent.is_async
          /\ workers[w].result.calls = 1
          /\ workers[w].call = [mode |-> "inline", thread |-> "worker",
                                blocks |-> "worker"]

----------------------------------------------------------------------------
(* C21 *)

\* The requests of the window that the OpenAI client has classified
Classified ==
    { w \in Started :
        /\ workers[w].pc # "started"
        /\ workers[w].agent.name = "openai"
        /\ ~IsKind(workers[w].result, "error") }

----------------------------------------------------------------------------
(* C22 *)

\* The client the application holds came from the last create_client call
HeldFromFactory == lastCreate.called /\ ~lastCreate.raised

\* C22 as stated: once the constructor of a client has returned, its
\* backend and model name are never changed by a later operation, the
\* factory included: the client the application holds is the client as its
\* constructor left it.
C22_Original == HeldFromFactory => agent = lastCreate.built

\* C22, corrected: after the constructor has returned, the factory still
\* sets the model of an OpenAI client when a model was asked for, and
\* changes nothing else; once create_client has returned, no operation
\* changes a client: a request keeps the client it was started with, and the
\* application's client changes only by a create_client call that builds a
\* new one.
C22_ImmutableAfterFactory ==
    /\ [](HeldFromFactory =>
            agent = IF agent.name = "openai" /\ lastCreate.model # "None"
                    THEN [lastCreate.built EXCEPT !.model = lastCreate.model]
                    ELSE lastCreate.built)
    /\ [][/\ \A w \in Started :
               w \in DOMAIN workers' /\ workers'[w].agent = workers[w].agent
          /\ agent' # agent => (lastCreate'.called /\ lastCreate' # lastCreate)]_vars

\* The window holds an OpenAI client whose model the factory has set after
\* construction, while a request sent earlier still holds the Gemini client
C22_Witness ==
    /\ ui.open
    /\ HeldFromFactory
    /\ agent.name = "openai"
    /\ agent.model = "gpt-oss-120b"
    /\ lastCreate.built.model = "gpt-3.5-turbo"
    /\ \E w \in Started : InFlight(w) /\ workers[w].agent.name = "gemini"

----------------------------------------------------------------------------
(* C23 *)

\* The provider lists the front ends have got from get_available_providers
Listings ==
    (IF ui.open THEN { ui.providers } ELSE {})
    \cup (IF cli.pc # "off" THEN { cli.providers } ELSE {})

Lists(providers, name) == \E i \in DOMAIN providers : providers[i] = name

\* C23: get_available_providers returns a non-empty list without
\* repetition: Gemini iff the Gemini credential is set (non-empty), OpenAI
\* iff the OpenAI credential is set, Gemini before OpenAI, and the mock
\* provider iff neither is set.
C23_AvailableProviders ==
    \A p \in Listings :
        /\ p # <<>>
        /\ \A i, j \in DOMAIN p : p[i] = p[j] => i = j
        /\ \A i \in DOMAIN p : p[i] \in {"gemini", "openai", "mock"}
        /\ Lists(p, "gemini") <=> Truthy(env["GOOGLE_API_KEY"])
        /\ Lists(p, "openai") <=> Truthy(env["OPENAI_API_KEY"])
        /\ \A i, j \in DOMAIN p : (p[i] = "gemini" /\ p[j] = "openai") => i < j
        /\ Lists(p, "mock") <=>
              (~Truthy(env["GOOGLE_API_KEY"]) /\ ~Truthy(env["OPENAI_API_KEY"]))

\* The command-line program has listed OpenAI alone, the Gemini credential
\* being the empty string, and the user has picked it
C23_Witness ==
    /\ cli.pc = "loop"
    /\ cli.providers = <<"openai">>
    /\ env["GOOGLE_API_KEY"] = ""
    /\ env["OPENAI_API_KEY"] = "k"
    /\ agent.name = "openai"

----------------------------------------------------------------------------
(* C24 *)

\* create_client was called with a provider name
CreatedExplicitly == lastCreate.called /\ lastCreate.provider.some

\* C24: create_client with an explicit provider returns a client of exactly
\* that provider (the name compared in lower case) or the mock client, never
\* a client of another real provider, whichever credentials are set; a name
\* that is neither gemini nor openai yields the mock client, no real client
\* being attempted.
C24_ExplicitOrMock ==
    CreatedExplicitly =>
        LET name == Lower(lastCreate.provider.s)
        IN  /\ ~lastCreate.raised
            /\ name = GeminiName => agent.name \in {"gemini", "mock"}
            /\ name = OpenAIName => agent.name \in {"openai", "mock"}
            /\ name \notin {GeminiName, OpenAIName} =>
                  (agent.name = "mock" /\ lastCreate.attempts = <<"mock">>)

\* OpenAI was asked for in capitals and could not be built, while Gemini
\* could have been: the mock client is returned
C24_Witness ==
    /\ CreatedExplicitly
    /\ lastCreate.provider.s = <<"O","P","E","N","A","I">>
    /\ ~OpenAIBuilds
    /\ GeminiBuilds
    /\ agent.name = "mock"

----------------------------------------------------------------------------
(* C25 *)

\* Worker w's run has returned
RunOver(w) == w \in Started /\ workers[w].pc \notin {"built", "started", "resolved"}

\* The signals of worker w that are queued for the UI thread
Queued(w, signal) ==
    { i \in DOMAIN queue : queue[i].worker = w /\ queue[i].signal = signal }

\* C25: a run with a command emits finished exactly once, and no progress
\* message; when process_request raised, the emitted result is the mapping
\* {type: error, error: <message>}; a run without a command emits one
\* progress message and never finished.
C25_WorkerSignals ==
    \A w \in Started :
        /\ workers[w].emitted.finished = Cardinality(Queued(w, "finished"))
        /\ workers[w].emitted.progress = Cardinality(Queued(w, "progress"))
        /\ workers[w].has_command =>
              /\ workers[w].emitted.progress = 0
              /\ workers[w].emitted.finished = (IF RunOver(w) THEN 1 ELSE 0)
              /\ workers[w].pc # "returned"
              /\ (RunOver(w) /\ workers[w].result.raised) =>
                    workers[w].arg =
                        Value("dict", [type |-> "error",
                                       error |-> workers[w].result.value])
        /\ ~workers[w].has_command =>
              /\ workers[w].emitted.finished = 0
              /\ workers[w].emitted.progress = (IF RunOver(w) THEN 1 ELSE 0)
              /\ workers[w].pc \in {"started", "returned"}

\* The agent's process_request raised with a message and the run emitted
\* the error mapping once
C25_Witness ==
    /\ RunOver(1)
    /\ workers[1].has_command
    /\ workers[1].result.raised
    /\ workers[1].arg = Value("dict", [type |-> "error",
                                       error |-> <<"t","i","m","e","o","u","t">>])
    /\ workers[1].emitted = [finished |-> 1, progress |-> 0]

----------------------------------------------------------------------------
(* C26 *)

\* The results process_request can give for worker w's command on the
\* client the worker was built on
ResultsOnOwnClient(w) ==
    { ProcessRequest(workers[w].agent, sdk, workers[w].command, v) :
        v \in FrontOutcomes(workers[w].agent) }

\* C26: a provider change while a request is in flight replaces the
\* window's client and touches neither the workers nor the queued results;
\* the request runs on the client the window held when its worker was built,
\* and a worker built later takes the client the window holds then.
C26_ProviderChangeInFlight ==
    /\ [][agent' # agent => (workers' = workers /\ queue' = queue)]_vars
    /\ [][\A w \in DOMAIN workers' :
            w \notin DOMAIN workers => workers'[w].agent = agent]_vars
    /\ [](\A w \in Started :
            workers[w].pc \notin {"built", "started"} =>
                workers[w].result \in ResultsOnOwnClient(w))

\* A request sent to the Gemini client has been answered with a plain
\* string and is still in flight, while the window already holds the OpenAI
\* client
C26_Witness ==
    /\ ui.open
    /\ agent.name = "openai"
    /\ \E w \in Started :
          /\ InFlight(w)
          /\ workers[w].agent.name = "gemini"
          /\ workers[w].pc = "emitted"
          /\ workers[w].result.py = "str"
          /\ \E i \in DOMAIN queue : queue[i].worker = w

----------------------------------------------------------------------------
(* C27 *)

\* The requests whose result has been delivered and replied to
Replied == { w \in Started : Shown(w) }

\* C27: the history only grows at its end; it holds the welcome, one user
\* message for every send with a non-blank text and one reply for every
\* delivered result, and nothing else; the reply to a request is the message
\* _on_worker_finished chooses for the delivered value and stands after the
\* user's message of that request; no request has a blank text.
C27_HistoryAppendOnly ==
    /\ [][ui.open =>
            /\ Len(ui'.messages) \in {Len(ui.messages), Len(ui.messages) + 1}
            /\ SubSeq(ui'.messages, 1, Len(ui.messages)) = ui.messages]_vars
    /\ [](ui.open =>
            /\ Len(ui.messages) = 1 + Sends + Cardinality(Replied)
            /\ \A w \in Started :
                  /\ workers[w].command # <<>>
                  /\ workers[w].asked \in 2..Len(ui.messages)
                  /\ ui.messages[workers[w].asked]
                        = [sender |-> "shoma", message |-> workers[w].command]
            /\ \A w \in Replied :
                  /\ workers[w].shown \in (workers[w].asked + 1)..Len(ui.messages)
                  /\ ui.messages[workers[w].shown] = Reply(workers[w].arg)
                  /\ \A x \in Replied : x # w => workers[x].shown # workers[w].shown)
    /\ [][\A typed \in KindInputs :
            (Strip(typed) = <<>> /\ OnSend(typed)) => UNCHANGED <<ui, workers, queue>>]_vars

\* Two requests have been answered, one with an analysis and one with a list
\* of recommendations, and the history holds the welcome, the two user
\* messages and the two replies
C27_Witness ==
    /\ ui.open
    /\ Len(ui.messages) = 5
    /\ \E w, x \in Replied :
          /\ Handled(w) /\ Handled(x)
          /\ ui.messages[workers[w].shown].sender = "tahlil"
          /\ ui.messages[workers[x].shown].sender = "pishnahadat"

----------------------------------------------------------------------------
(* C28 *)

\* The loop of main is left in this step
LoopEnds == cli.pc = "loop" /\ cli'.pc # "loop"

\* The step processes a request to its end
Processes == cli.pc = "loop" /\ cli'.pc = "loop" /\ cli'.result # cli.result

\* C28 as the specification states it: the loop is left only for exit or
\* quit, the end of input or a keyboard interrupt, and main then returns 0;
\* a request that raises or gives an error result is reported and the next
\* request is asked for; main returns 1 only from outside the loop.
C28_Original ==
    /\ [][LoopEnds =>
            /\ cli'.pc = "returned"
            /\ cli'.code = 0
            /\ cli'.out.what \in {"goodbye", "ended", "stopped"}]_vars
    /\ [][(cli.pc = "loop" /\ cli'.result # cli.result
            /\ (cli'.result.raised \/ IsKind(cli'.result, "error"))) =>
            (cli'.pc = "loop" /\ cli'.out # cli.out)]_vars
    /\ [][(cli.pc # "off" /\ cli'.code = 1 /\ cli.code # 1) => cli.pc = "select"]_vars

\* What holds of the loop as long as no Ctrl-C has been pressed
C28_UntilInterrupted ==
    /\ [][(LoopEnds /\ ~cli.cancel) =>
            /\ cli'.pc = "returned"
            /\ cli'.code = 0
            /\ cli'.exit = "0"
            /\ cli'.out.what \in {"goodbye", "ended"}]_vars
    /\ [][(cli.pc = "loop" /\ cli'.result # cli.result
            /\ (cli'.result.raised \/ IsKind(cli'.result, "error"))) =>
            (cli'.pc = "loop" /\ cli'.out # cli.out)]_vars
    /\ [][(cli.pc # "off" /\ cli'.code = 1 /\ cli.code # 1) => cli.pc = "select"]_vars

----------------------------------------------------------------------------
(* C29 *)

\* The OpenAI client's vendor call has returned
Answered ==
    /\ DoneBy("openai")
    /\ lastReq.result.calls = 1
    /\ ~lastReq.vendor.raises

\* The value or the string form of it, stripped, whichever is the first not
\* to be empty: the picked field, the choice, the response
FirstText(picked, choice, response) ==
    LET t1 == IF picked.str THEN Strip(picked.s) ELSE <<>>
    IN  IF t1 # <<>> THEN t1
        ELSE IF Strip(choice.repr) # <<>> THEN Strip(choice.repr)
        ELSE Strip(response.repr)

\* C29 as stated: the text is the first choice's message content when the
\* choice has a message, else its text field; an empty or non-string text
\* gives way to the string form of the choice, then of the response; when
\* reading raises (no choices, unreadable response) the text is the string
\* form of the response, and empty for a missing response.
C29_Original ==
    Answered =>
        LET response == lastReq.vendor.response
        IN  lastReq.result.text =
              (IF response.t = "none" THEN <<>>
               ELSE IF response.t = "bad" \/ response.choices = <<>>
               THEN Strip(response.repr)
               ELSE LET choice == response.choices[1]
                    IN  FirstText(IF choice.has_message THEN choice.content
                                  ELSE IF choice.has_text THEN choice.text
                                  ELSE Str(<<>>),
                                  choice, response))

\* C29 amended: as stated, with two provisos.  A choice that is a dict
\* gives its message content only when the message is a dict too, and
\* otherwise its text field; a choice that is an object gives the content
\* of its message whenever it has a message and its text field only when it
\* has none.  When reading raises, the text is empty not only for a missing
\* response but for every falsy one (an empty mapping).
C29_FirstChoiceText ==
    Answered =>
        LET response == lastReq.vendor.response
        IN  lastReq.result.text =
              (IF response.t \in {"none", "empty"} THEN <<>>
               ELSE IF response.t = "bad" \/ response.choices = <<>>
               THEN Strip(response.repr)
               ELSE LET choice == response.choices[1]
                        message == choice.has_message
                                   /\ (choice.t = "dict" => choice.message_t = "dict")
                    IN  FirstText(IF message THEN choice.content
                                  ELSE IF choice.has_text
                                          /\ (choice.t = "obj" => ~choice.has_message)
                                  THEN choice.text
                                  ELSE Str(<<>>),
                                  choice, response))

\* A response of two choices, the first with an empty message content and
\* the second with a content: the text is the string form of the first
\* choice
C29_Witness ==
    /\ Answered
    /\ Len(lastReq.vendor.response.choices) = 2
    /\ lastReq.vendor.response.choices[1].content = Str(<<>>)
    /\ lastReq.vendor.response.choices[2].content = Str(<<"o","k">>)
    /\ lastReq.result.text = Strip(ChoiceRepr)

----------------------------------------------------------------------------
(* C30 *)

\* A site search has returned to its caller
SearchReturned == web.pc = "returned"

\* C30 as stated: when a site search returns, the page it opened is closed,
\* whether it succeeded or failed, and a failed search returns the empty
\* list.
C30_Original ==
    SearchReturned =>
        /\ web.page # "open"
        /\ web.failed => web.ret = <<>>

\* What holds of both searches: a failed search returns the empty list, a
\* successful one the products and a closed page; and of _search_digikala:
\* its page is closed whenever it returns
C30_DigikalaCloses ==
    SearchReturned =>
        /\ web.failed => web.ret = <<>>
        /\ ~web.failed => (web.ret = web.products /\ web.page = "closed")
        /\ web.site = "digikala" => web.page # "open"

\* Every failed technolife search that had opened a page leaves it open
C30_TechnolifeLeaks ==
    (SearchReturned /\ web.site = "technolife" /\ web.failed) =>
        web.page \in {"None", "open"}

====
